---- MODULE Spec2Model ----
(***************************************************************************)
(* A model of stabilkon's quad mesh builder (MeshFromQuads): the           *)
(* capacity-checked vertex/index buffer, the index generator and the       *)
(* per-quad vertex computation of the QuadDrawParams implementations.      *)
(*                                                                         *)
(* u32 values keep their 32-bit width: a u32 is a pair <<hi, lo>> of two   *)
(* 16-bit limbs, so that products and sums near 2^32 are computed exactly  *)
(* (TLC's integers stop at 2^31 - 1).  f32 values are exact rationals      *)
(* <<n, d>>, d > 0, in lowest terms; the rounding of f32 is applied where  *)
(* it is named (F32, Add32, ..., corner_points_f32); infinities and NaN    *)
(* are outside the model.                                                  *)
(***************************************************************************)
EXTENDS Integers, Sequences, FiniteSets, TLC

VARIABLES overflow_checks, builder, ctor, last, gen

vars == <<overflow_checks, builder, ctor, last, gen>>

(***************************************************************************)
(* Bounds of the model.                                                    *)
(***************************************************************************)
\* Largest quad_limit whose buffers the model materialises.
MaxQuads == 2
\* Longest vertex vector handed to from_texture_vertices_indices.
MaxVecLen == 7
\* Largest quad_count the index generation loop is run for from its start.
MaxGenQuads == 4

(***************************************************************************)
(* u32 arithmetic on two 16-bit limbs.                                     *)
(***************************************************************************)
Limb == 2^16

\* The u32 with value n, for a natural n below 2^31.
U32(n) == <<n \div Limb, n % Limb>>

U32_MAX == <<Limb - 1, Limb - 1>>

\* The value of a u32 that is small enough to index a materialised vector.
AsUsize(a) == a[1] * Limb + a[2]

U32Lt(a, b) == a[1] < b[1] \/ (a[1] = b[1] /\ a[2] < b[2])

U32Le(a, b) == a = b \/ U32Lt(a, b)

\* The exact product a * k and sum a + k (k a small natural): the high limb
\* of the result reaches Limb or more exactly when the value leaves u32.
WideMul(a, k) == <<a[1] * k + ((a[2] * k) \div Limb), (a[2] * k) % Limb>>

WideAdd(a, k) == <<a[1] + ((a[2] + k) \div Limb), (a[2] + k) % Limb>>

Overflows(w) == w[1] >= Limb

Wrap(w) == <<w[1] % Limb, w[2]>>

\* Option: None is the empty tuple and Some(x) the one-element tuple.
None == <<>>

Some(x) == <<x>>

\* u32::checked_mul: None on overflow.
checked_mul(a, k) ==
    IF Overflows(WideMul(a, k)) THEN None ELSE Some(WideMul(a, k))

\* The operators `*` and `+` on u32.  On overflow they panic when the build
\* has overflow checks (debug profile) and wrap modulo 2^32 when it has not
\* (release profile): MulU32 and AddU32 are the values when they do not
\* panic, MulPanics and AddPanics tell when they do.
MulU32(a, k) == Wrap(WideMul(a, k))

AddU32(a, k) == Wrap(WideAdd(a, k))

MulPanics(a, k, checks) == checks /\ Overflows(WideMul(a, k))

AddPanics(a, k, checks) == checks /\ Overflows(WideAdd(a, k))

\* a - k for a small natural k <= a.
SubU32(a, k) ==
    IF a[2] >= k THEN <<a[1], a[2] - k>> ELSE <<a[1] - 1, a[2] + Limb - k>>

\* u32 division by a small positive natural (quotient only).
DivU32(a, k) ==
    <<a[1] \div k, (((a[1] % k) * Limb) + a[2]) \div k>>

(***************************************************************************)
(* f32 values as exact rationals.                                          *)
(***************************************************************************)
RECURSIVE Gcd(_, _)
Gcd(a, b) == IF b = 0 THEN a ELSE Gcd(b, a % b)

Abs(n) == IF n < 0 THEN -n ELSE n

\* The rational n / d in lowest terms with a positive denominator (d # 0).
Q(n, d) ==
    LET g == Gcd(Abs(n), Abs(d))
        s == IF d < 0 THEN -1 ELSE 1
    IN  <<(s * n) \div g, (s * d) \div g>>

F(n) == <<n, 1>>

FAdd(a, b) == Q(a[1] * b[2] + b[1] * a[2], a[2] * b[2])

FSub(a, b) == Q(a[1] * b[2] - b[1] * a[2], a[2] * b[2])

FMul(a, b) == Q(a[1] * b[1], a[2] * b[2])

FDiv(a, b) == Q(a[1] * b[2], a[2] * b[1])

FNeg(a) == <<-a[1], a[2]>>

FAbs(a) == <<Abs(a[1]), a[2]>>

FLt(a, b) == a[1] * b[2] < b[1] * a[2]

FGt(a, b) == FLt(b, a)

FGe(a, b) == ~FLt(a, b)

Vec2(x, y) == [x |-> x, y |-> y]

Vec4(x, y, z, w) == [x |-> x, y |-> y, z |-> z, w |-> w]

VEC2_ZERO == Vec2(F(0), F(0))

(***************************************************************************)
(* Vertices and quad draw parameters.                                      *)
(***************************************************************************)
\* PosUvColor::new; the vertex type of the builder is PosUvColor itself.
PosUvColor(position, uv, color) ==
    [position |-> position, uv |-> uv, color |-> color]

\* The vertex MaybeUninit::zeroed() yields: every field 0.0.
ZeroedVertex ==
    PosUvColor(VEC2_ZERO, VEC2_ZERO, Vec4(F(0), F(0), F(0), F(0)))

\* UvFlip
UvFlip == {"None", "Horizontal", "Vertical", "Both"}

\* The three implementations of QuadDrawParams.  A rotation is an angle
\* given by whether it compares equal to 0.0 and by its cosine and sine.
PosColorSource(position, color, source, flip) ==
    [kind |-> "PosColorSource", position |-> position, color |-> color,
     source |-> source, flip |-> flip]

PosColorSizeSource(position, color, size, source, flip) ==
    [kind |-> "PosColorSizeSource", position |-> position, color |-> color,
     size |-> size, source |-> source, flip |-> flip]

DetailedParams(position, color, origin, size, scale, rotation, source, flip) ==
    [kind |-> "DetailedParams", position |-> position, color |-> color,
     origin |-> origin, size |-> size, scale |-> scale,
     rotation |-> rotation, source |-> source, flip |-> flip]

Rotation(eq_zero, cos, sin) == [eq_zero |-> eq_zero, cos |-> cos, sin |-> sin]

get_color(p) == p.color

\* A variant of PosColorSource::corner_points that takes the source size as
\* it is, with no fallback to the texture size: the corner property tells it
\* from corner_points_basic.
corner_points_basic_no_fallback(p, texture_size) ==
    <<Vec2(p.position.x, p.position.y),
      Vec2(p.position.x, FAdd(p.position.y, p.source.w)),
      Vec2(FAdd(p.position.x, p.source.z), FAdd(p.position.y, p.source.w)),
      Vec2(FAdd(p.position.x, p.source.z), p.position.y)>>

\* PosColorSource::corner_points: <<c1, c2, c3, c4>>.
corner_points_basic(p, texture_size) ==
    LET source_width == p.source.z
        source_or_texture_width ==
            IF FGt(source_width, F(0)) THEN source_width ELSE texture_size.x
        source_height == p.source.w
        source_or_texture_height ==
            IF FGt(source_height, F(0)) THEN source_height ELSE texture_size.y
        f2 == Vec2(FAdd(p.position.x, source_or_texture_width),
                   FAdd(p.position.y, source_or_texture_height))
    IN  <<Vec2(p.position.x, p.position.y),
          Vec2(p.position.x, f2.y),
          Vec2(f2.x, f2.y),
          Vec2(f2.x, p.position.y)>>

\* A variant of PosColorSizeSource::corner_points that goes round the
\* rectangle the other way, c2 = (x + w, y) and c4 = (x, y + h): the winding
\* property tells it from corner_points_sized.
corner_points_sized_other_way(p, texture_size) ==
    LET f2 == Vec2(FAdd(p.position.x, p.size.x), FAdd(p.position.y, p.size.y))
    IN  <<Vec2(p.position.x, p.position.y),
          Vec2(f2.x, p.position.y),
          Vec2(f2.x, f2.y),
          Vec2(p.position.x, f2.y)>>

\* PosColorSizeSource::corner_points.
corner_points_sized(p, texture_size) ==
    LET f2 == Vec2(FAdd(p.position.x, p.size.x), FAdd(p.position.y, p.size.y))
    IN  <<Vec2(p.position.x, p.position.y),
          Vec2(p.position.x, f2.y),
          Vec2(f2.x, f2.y),
          Vec2(f2.x, p.position.y)>>

\* A variant of the rotated branch whose fourth corner is c1 + (c3 - c2) in
\* x but c3 + (c2 - c1) in y: the closure property tells it from
\* rotated_corners.
rotated_corners_open(cos, sin, p1, p2, p3, p4) ==
    LET c1 == Vec2(FSub(FMul(cos, p1.x), FMul(sin, p1.y)),
                   FAdd(FMul(sin, p1.x), FMul(cos, p1.y)))
        c2 == Vec2(FSub(FMul(cos, p2.x), FMul(sin, p2.y)),
                   FAdd(FMul(sin, p2.x), FMul(cos, p2.y)))
        c3 == Vec2(FSub(FMul(cos, p3.x), FMul(sin, p3.y)),
                   FAdd(FMul(sin, p3.x), FMul(cos, p3.y)))
        c4 == Vec2(FAdd(c1.x, FSub(c3.x, c2.x)),
                   FAdd(c3.y, FSub(c2.y, c1.y)))
    IN  <<c1, c2, c3, c4>>

\* DetailedParams::corner_points, the branch taken when rotation != 0.0:
\* the corners of the local rectangle p1..p4 rotated about the origin.
rotated_corners(cos, sin, p1, p2, p3, p4) ==
    LET c1 == Vec2(FSub(FMul(cos, p1.x), FMul(sin, p1.y)),
                   FAdd(FMul(sin, p1.x), FMul(cos, p1.y)))
        c2 == Vec2(FSub(FMul(cos, p2.x), FMul(sin, p2.y)),
                   FAdd(FMul(sin, p2.x), FMul(cos, p2.y)))
        c3 == Vec2(FSub(FMul(cos, p3.x), FMul(sin, p3.y)),
                   FAdd(FMul(sin, p3.x), FMul(cos, p3.y)))
        c4 == Vec2(FAdd(c1.x, FSub(c3.x, c2.x)),
                   FSub(c3.y, FSub(c2.y, c1.y)))
    IN  <<c1, c2, c3, c4>>

\* Variants of DetailedParams::corner_points, told from it by the properties
\* of its corners: in one the branch for rotation == 0.0 hands p4 to c2 and
\* p2 to c4, in the other each axis is scaled only when its own scale is out
\* of the tolerance.
corner_points_detailed_fast_path_exchanged(p, texture_size) ==
    LET world_origin == Vec2(FAdd(p.position.x, p.origin.x),
                             FAdd(p.position.y, p.origin.y))
        f0 == Vec2(FNeg(p.origin.x), FNeg(p.origin.y))
        f20 == Vec2(FSub(p.size.x, p.origin.x), FSub(p.size.y, p.origin.y))
        scaled == \/ FGt(FAbs(FSub(p.scale.x, F(1))), Q(1, 1000))
                  \/ FGt(FAbs(FSub(p.scale.y, F(1))), Q(1, 1000))
        f == IF scaled
             THEN Vec2(FMul(f0.x, p.scale.x), FMul(f0.y, p.scale.y))
             ELSE f0
        f2 == IF scaled
              THEN Vec2(FMul(f20.x, p.scale.x), FMul(f20.y, p.scale.y))
              ELSE f20
        p1 == f
        p2 == Vec2(f.x, f2.y)
        p3 == Vec2(f2.x, f2.y)
        p4 == Vec2(f2.x, f.y)
        c == IF p.rotation.eq_zero
             THEN <<p1, p4, p3, p2>>
             ELSE rotated_corners(p.rotation.cos, p.rotation.sin, p1, p2, p3, p4)
    IN  [i \in 1..4 |-> Vec2(FAdd(c[i].x, world_origin.x),
                             FAdd(c[i].y, world_origin.y))]

corner_points_detailed_scaling_per_axis(p, texture_size) ==
    LET world_origin == Vec2(FAdd(p.position.x, p.origin.x),
                             FAdd(p.position.y, p.origin.y))
        f0 == Vec2(FNeg(p.origin.x), FNeg(p.origin.y))
        f20 == Vec2(FSub(p.size.x, p.origin.x), FSub(p.size.y, p.origin.y))
        scaled_x == FGt(FAbs(FSub(p.scale.x, F(1))), Q(1, 1000))
        scaled_y == FGt(FAbs(FSub(p.scale.y, F(1))), Q(1, 1000))
        f == Vec2(IF scaled_x THEN FMul(f0.x, p.scale.x) ELSE f0.x,
                  IF scaled_y THEN FMul(f0.y, p.scale.y) ELSE f0.y)
        f2 == Vec2(IF scaled_x THEN FMul(f20.x, p.scale.x) ELSE f20.x,
                   IF scaled_y THEN FMul(f20.y, p.scale.y) ELSE f20.y)
        p1 == f
        p2 == Vec2(f.x, f2.y)
        p3 == Vec2(f2.x, f2.y)
        p4 == Vec2(f2.x, f.y)
        c == IF p.rotation.eq_zero
             THEN <<p1, p2, p3, p4>>
             ELSE rotated_corners(p.rotation.cos, p.rotation.sin, p1, p2, p3, p4)
    IN  [i \in 1..4 |-> Vec2(FAdd(c[i].x, world_origin.x),
                             FAdd(c[i].y, world_origin.y))]

\* DetailedParams::corner_points.
corner_points_detailed(p, texture_size) ==
    LET world_origin == Vec2(FAdd(p.position.x, p.origin.x),
                             FAdd(p.position.y, p.origin.y))
        f0 == Vec2(FNeg(p.origin.x), FNeg(p.origin.y))
        f20 == Vec2(FSub(p.size.x, p.origin.x), FSub(p.size.y, p.origin.y))
        scaled == \/ FGt(FAbs(FSub(p.scale.x, F(1))), Q(1, 1000))
                  \/ FGt(FAbs(FSub(p.scale.y, F(1))), Q(1, 1000))
        f == IF scaled
             THEN Vec2(FMul(f0.x, p.scale.x), FMul(f0.y, p.scale.y))
             ELSE f0
        f2 == IF scaled
              THEN Vec2(FMul(f20.x, p.scale.x), FMul(f20.y, p.scale.y))
              ELSE f20
        p1 == f
        p2 == Vec2(f.x, f2.y)
        p3 == Vec2(f2.x, f2.y)
        p4 == Vec2(f2.x, f.y)
        c == IF p.rotation.eq_zero
             THEN <<p1, p2, p3, p4>>
             ELSE rotated_corners(p.rotation.cos, p.rotation.sin, p1, p2, p3, p4)
    IN  [i \in 1..4 |-> Vec2(FAdd(c[i].x, world_origin.x),
                             FAdd(c[i].y, world_origin.y))]

\* QuadDrawParams::corner_points, by implementation.
corner_points(p, texture_size) ==
    CASE p.kind = "PosColorSource" -> corner_points_basic(p, texture_size)
      [] p.kind = "PosColorSizeSource" -> corner_points_sized(p, texture_size)
      [] p.kind = "DetailedParams" -> corner_points_detailed(p, texture_size)

\* A variant of get_texel_coord without the half texel: the half-pixel
\* property of the UVs tells it from get_texel_coord.
get_texel_coord_plain(v, tex_dim, use_half_pixel_offset) == FDiv(v, tex_dim)

\* get_texel_coord
get_texel_coord(v, tex_dim, use_half_pixel_offset) ==
    IF use_half_pixel_offset
    THEN FDiv(FAdd(v, Q(1, 2)), tex_dim)
    ELSE FDiv(v, tex_dim)

\* Variants of flip_uvs, told from it by the properties of flipping: one
\* assigns where flip_uvs swaps, one flips Both on the horizontal axis only.
flip_uvs_assigning(flip, u, v, u2, v2) ==
    <<IF flip \in {"Horizontal", "Both"} THEN u2 ELSE u,
      IF flip \in {"Vertical", "Both"} THEN v2 ELSE v,
      u2, v2>>

flip_uvs_both_horizontal(flip, u, v, u2, v2) ==
    <<IF flip \in {"Horizontal", "Both"} THEN u2 ELSE u,
      IF flip = "Vertical" THEN v2 ELSE v,
      IF flip \in {"Horizontal", "Both"} THEN u ELSE u2,
      IF flip = "Vertical" THEN v ELSE v2>>

\* flip_uvs: <<u, v, u2, v2>> after the swaps.
flip_uvs(flip, u, v, u2, v2) ==
    LET h == flip = "Horizontal" \/ flip = "Both"
        w == flip = "Vertical" \/ flip = "Both"
    IN  <<IF h THEN u2 ELSE u, IF w THEN v2 ELSE v,
          IF h THEN u ELSE u2, IF w THEN v ELSE v2>>

\* A variant of calculate_uvs_with_source that keeps V at a top-left
\* origin: the property of the plain UVs tells it from the inverting one.
calculate_uvs_top_origin(texture_size, use_half_pixel_offset, source, flip) ==
    IF FGt(texture_size.x, F(0)) /\ FGt(texture_size.y, F(0))
    THEN <<Vec2(get_texel_coord(source.x, texture_size.x, use_half_pixel_offset),
                get_texel_coord(source.y, texture_size.y, use_half_pixel_offset)),
           Vec2(get_texel_coord(FAdd(source.x, source.z), texture_size.x,
                                use_half_pixel_offset),
                get_texel_coord(FAdd(source.y, source.w), texture_size.y,
                                use_half_pixel_offset))>>
    ELSE <<Vec2(F(0), F(1)), Vec2(F(1), F(0))>>

\* A variant of calculate_uvs_with_source that flips the fixed pair too: the
\* property of the fixed pair tells it from calculate_uvs_with_source.
calculate_uvs_flipping_fixed(texture_size, use_half_pixel_offset, source, flip) ==
    IF FGt(texture_size.x, F(0)) /\ FGt(texture_size.y, F(0))
    THEN LET d == IF use_half_pixel_offset THEN F(1) ELSE F(0)
             r == flip_uvs(
                      flip,
                      get_texel_coord(source.x, texture_size.x, use_half_pixel_offset),
                      get_texel_coord(FSub(FAdd(source.y, source.w), d),
                                      texture_size.y, use_half_pixel_offset),
                      get_texel_coord(FSub(FAdd(source.x, source.z), d),
                                      texture_size.x, use_half_pixel_offset),
                      get_texel_coord(source.y, texture_size.y, use_half_pixel_offset))
         IN  <<Vec2(r[1], r[2]), Vec2(r[3], r[4])>>
    ELSE <<Vec2(flip_uvs(flip, F(0), F(1), F(1), F(0))[1],
                flip_uvs(flip, F(0), F(1), F(1), F(0))[2]),
           Vec2(flip_uvs(flip, F(0), F(1), F(1), F(0))[3],
                flip_uvs(flip, F(0), F(1), F(1), F(0))[4])>>

\* calculate_uvs_with_source: <<uv, uv2>>, the top-left and bottom-right UVs.
calculate_uvs_with_source(texture_size, use_half_pixel_offset, source, flip) ==
    IF FGt(texture_size.x, F(0)) /\ FGt(texture_size.y, F(0))
    THEN LET bottom == IF use_half_pixel_offset
                       THEN FSub(FAdd(source.y, source.w), F(1))
                       ELSE FAdd(source.y, source.w)
             right == IF use_half_pixel_offset
                      THEN FSub(FAdd(source.x, source.z), F(1))
                      ELSE FAdd(source.x, source.z)
             u == get_texel_coord(source.x, texture_size.x, use_half_pixel_offset)
             v == get_texel_coord(bottom, texture_size.y, use_half_pixel_offset)
             u2 == get_texel_coord(right, texture_size.x, use_half_pixel_offset)
             v2 == get_texel_coord(source.y, texture_size.y, use_half_pixel_offset)
             r == flip_uvs(flip, u, v, u2, v2)
         IN  <<Vec2(r[1], r[2]), Vec2(r[3], r[4])>>
    ELSE <<Vec2(F(0), F(1)), Vec2(F(1), F(0))>>

\* QuadDrawParams::uvs: the same call in all three implementations.
uvs(p, texture_size, use_half_pixel_offset) ==
    calculate_uvs_with_source(texture_size, use_half_pixel_offset, p.source, p.flip)

\* make_vertices
make_vertices(color, c1_position, c2_position, c3_position, c4_position, c1_uv, c2_uv, c3_uv, c4_uv) ==
    <<PosUvColor(c1_position, c1_uv, color),
      PosUvColor(c2_position, c2_uv, color),
      PosUvColor(c3_position, c3_uv, color),
      PosUvColor(c4_position, c4_uv, color)>>

\* A variant of the derivation of the two other UVs with their roles
\* exchanged (c2 takes (uv3.x, uv1.y)): the UV property of the written quad
\* tells it from quad_vertices.
quad_vertices_uvs_exchanged(color, c, uv) ==
    make_vertices(color, c[1], c[2], c[3], c[4],
                  uv[1], Vec2(uv[2].x, uv[1].y), uv[2], Vec2(uv[1].x, uv[2].y))

\* The first part of set_vertices, after corner_points and uvs returned
\* the corners c and the UVs uv = <<c1_uv, c3_uv>>: the two other UVs and
\* the four corner vertices <<c1, c2, c3, c4>>.
quad_vertices(color, c, uv) ==
    make_vertices(color, c[1], c[2], c[3], c[4],
                  uv[1], Vec2(uv[1].x, uv[2].y), uv[2], Vec2(uv[2].x, uv[1].y))

quad_corners(p, texture_size, use_half_pixel_offset) ==
    quad_vertices(get_color(p),
                  corner_points(p, texture_size),
                  uvs(p, texture_size, use_half_pixel_offset))

\* A variant of the order of the stores whose second triangle is
\* c1, c3, c4: the layout property tells it from quad_layout.
quad_layout_fan(c, use_indices) ==
    IF use_indices
    THEN <<c[1], c[2], c[3], c[4]>>
    ELSE <<c[1], c[2], c[3], c[1], c[3], c[4]>>

\* The vertices set_vertices stores, in the order of its assignments.
quad_layout(c, use_indices) ==
    IF use_indices
    THEN <<c[1], c[2], c[3], c[4]>>
    ELSE <<c[1], c[2], c[3], c[3], c[4], c[1]>>

\* The assignments vertices[vertex_offset + j] = vals[j + 1], one after the
\* other; an index at or past the length panics and leaves the earlier
\* assignments in place.  vertex_offset is a usize holding a u32 value.
RECURSIVE store_from(_, _, _, _)
store_from(vertices, vertex_offset, vals, j) ==
    IF j >= Len(vals)
    THEN [vertices |-> vertices, panic |-> FALSE]
    ELSE LET at == WideAdd(vertex_offset, j)
         IN  IF Overflows(at) \/ ~U32Lt(at, U32(Len(vertices)))
             THEN [vertices |-> vertices, panic |-> TRUE]
             ELSE store_from([vertices EXCEPT ![AsUsize(at) + 1] = vals[j + 1]],
                             vertex_offset, vals, j + 1)

\* QuadDrawParams::set_vertices (PosColorSource overrides it with the same
\* body): the buffer after the call and whether the call panicked.
set_vertices(p, texture_size, use_half_pixel_offset, use_indices, vertex_offset, vertices) ==
    store_from(vertices, vertex_offset,
               quad_layout(quad_corners(p, texture_size, use_half_pixel_offset),
                           use_indices),
               0)

\* QuadDrawParams::to_vertices (PosColorSource overrides it with the same
\* body): set_vertices at offset 0 of Vec::with_capacity(vertices_per_quad),
\* a vector that has room for the vertices but no element yet.
to_vertices(p, texture_size, use_half_pixel_offset, use_indices) ==
    set_vertices(p, texture_size, use_half_pixel_offset, use_indices, <<0, 0>>, <<>>)

(***************************************************************************)
(* Index generation.                                                       *)
(***************************************************************************)
\* Result: Ok(v), Err(e), and a call that panicked instead of returning.
Ok(v) == [ok |-> TRUE, value |-> Some(v), error |-> "none"]

Err(e) == [ok |-> FALSE, value |-> None, error |-> e]

Panicked == [ok |-> FALSE, value |-> None, error |-> "panic"]

\* vertices_per_quad, as the small natural it is.
vertices_per_quad(use_indices) == IF use_indices THEN 4 ELSE 6

\* A variant of total_vertices_in_quads with the wrapping product: the
\* overflow property of construction tells it from the checked one.
total_vertices_wrapping(quad_count, use_indices) ==
    Some(MulU32(quad_count, vertices_per_quad(use_indices)))

\* total_vertices_in_quads: Some(total), or None for QuadCountIsTooLarge.
total_vertices_in_quads(quad_count, use_indices) ==
    checked_mul(quad_count, vertices_per_quad(use_indices))

\* A variant of the length with the wrapping product in place of
\* checked_mul: the error property tells it from gen_length.
gen_length_wrapping(quad_count) == Some(MulU32(quad_count, 6))

\* generate_quad_indices, the length computed before the loop: None stands
\* for the QuadCountIsTooLarge error.
gen_length(quad_count) == checked_mul(quad_count, 6)

\* The state of the loop of generate_quad_indices: offset and index_value,
\* and, of the vector vec![0; length], the entries base .. offset - 1 that
\* the loop has written so far (base is 0 when the loop ran from its start);
\* the entries from offset on are still 0.  panic: the loop panicked.
GenLoop(base, offset, index_value, indices, panic) ==
    [base |-> base, offset |-> offset, index_value |-> index_value,
     indices |-> indices, panic |-> panic]

gen_start == GenLoop(U32(0), U32(0), U32(0), <<>>, FALSE)

\* A variant of the loop body with the second triangle wound 0, 2, 3: the
\* pattern property tells it from gen_body.
gen_body_fan(s, length, checks) ==
    LET v == <<s.index_value,
               AddU32(s.index_value, 1),
               AddU32(s.index_value, 2),
               s.index_value,
               AddU32(s.index_value, 2),
               AddU32(s.index_value, 3)>>
        panics == \/ \E j \in 0..5 : ~U32Lt(WideAdd(s.offset, j), length)
                  \/ \E k \in 1..4 : AddPanics(s.index_value, k, checks)
    IN  IF panics
        THEN [s EXCEPT !.panic = TRUE]
        ELSE GenLoop(s.base, WideAdd(s.offset, 6),
                     AddU32(s.index_value, 4), s.indices \o v, FALSE)

\* One iteration of the loop: the six assignments and the two increments.
\* It panics when an index is past the length or, with overflow checks, when
\* an addition leaves u32.
gen_body(s, length, checks) ==
    LET v == <<s.index_value,
               AddU32(s.index_value, 1),
               AddU32(s.index_value, 2),
               AddU32(s.index_value, 2),
               AddU32(s.index_value, 3),
               s.index_value>>
        panics == \/ \E j \in 0..5 : ~U32Lt(WideAdd(s.offset, j), length)
                  \/ \E k \in 1..4 : AddPanics(s.index_value, k, checks)
    IN  IF panics
        THEN [s EXCEPT !.panic = TRUE]
        ELSE GenLoop(s.base, WideAdd(s.offset, 6),
                     AddU32(s.index_value, 4), s.indices \o v, FALSE)

\* The loop run to its end from state s.
RECURSIVE gen_run(_, _, _)
gen_run(s, length, checks) ==
    IF ~s.panic /\ U32Lt(s.offset, length)
    THEN gen_run(gen_body(s, length, checks), length, checks)
    ELSE s

\* generate_quad_indices: Ok(indices), Err("QuadCountIsTooLarge") or a panic.
generate_quad_indices(quad_count, checks) ==
    LET length == gen_length(quad_count)
    IN  IF length = None
        THEN Err("QuadCountIsTooLarge")
        ELSE LET s == gen_run(gen_start, length[1], checks)
             IN  IF s.panic THEN Panicked ELSE Ok(s.indices)

(***************************************************************************)
(* The mesh builder.                                                       *)
(***************************************************************************)
\* struct MeshFromQuads.  indices is an Option; quad_limit,
\* vertices_per_quad and max_vertices are u32.
MeshFromQuads(texture_size, use_half_pixel_offset, indices, vertices, quad_limit, use_indices, vertices_per_quad_, max_vertices) ==
    [texture_size |-> texture_size,
     use_half_pixel_offset |-> use_half_pixel_offset,
     indices |-> indices,
     vertices |-> vertices,
     quad_limit |-> quad_limit,
     use_indices |-> use_indices,
     vertices_per_quad |-> vertices_per_quad_,
     max_vertices |-> max_vertices]

\* A variant of the texture check that takes any positive size: the
\* constructor property tells it from texture_size_ok.
texture_size_positive(texture_size) ==
    FGt(texture_size.x, F(0)) /\ FGt(texture_size.y, F(0))

\* The check both constructors start with.
texture_size_ok(texture_size) ==
    FGe(texture_size.x, F(1)) /\ FGe(texture_size.y, F(1))

\* MeshFromQuads::create.  Called only where the buffers can be
\* materialised: quad_limit is small or the construction fails.
create(texture_size, use_half_pixel_offset, quad_limit, use_indices, checks) ==
    IF ~texture_size_ok(texture_size)
    THEN Err("InvalidTextureSize")
    ELSE LET indices == IF use_indices
                        THEN generate_quad_indices(quad_limit, checks)
                        ELSE Ok(<<>>)
             max_vertices == total_vertices_in_quads(quad_limit, use_indices)
         IN  IF ~indices.ok
             THEN indices
             ELSE IF max_vertices = None
                  THEN Err("QuadCountIsTooLarge")
                  ELSE Ok(MeshFromQuads(
                           texture_size,
                           use_half_pixel_offset,
                           IF use_indices THEN Some(indices.value[1]) ELSE None,
                           [i \in 1..AsUsize(max_vertices[1]) |-> ZeroedVertex],
                           quad_limit,
                           use_indices,
                           U32(vertices_per_quad(use_indices)),
                           max_vertices[1]))

\* MeshFromQuads::new and MeshFromQuads::new_without_indices.
new(texture_size, use_half_pixel_offset, quad_limit, checks) ==
    create(texture_size, use_half_pixel_offset, quad_limit, TRUE, checks)

new_without_indices(texture_size, use_half_pixel_offset, quad_limit, checks) ==
    create(texture_size, use_half_pixel_offset, quad_limit, FALSE, checks)

\* MeshFromQuads::from_texture_vertices_indices.  The length of a
\* materialised vector always converts to u32, so VertexBufferIsTooLarge
\* is never returned here.
from_texture_vertices_indices(texture_size, use_half_pixel_offset, vertices, indices) ==
    IF ~texture_size_ok(texture_size)
    THEN Err("InvalidTextureSize")
    ELSE LET use_indices == indices # None
             vpq == vertices_per_quad(use_indices)
             max_vertices == U32(Len(vertices))
             quad_limit == DivU32(max_vertices, vpq)
         IN  Ok(MeshFromQuads(texture_size, use_half_pixel_offset, indices,
                              vertices, quad_limit, use_indices, U32(vpq),
                              max_vertices))

\* The getters.
indices_(b) == b.indices

quad_limit_(b) == b.quad_limit

vertices_(b) == b.vertices

vertices_limit(b) == b.max_vertices

vertices_per_quad_of(b) == b.vertices_per_quad

\* Variants of clear, told from it by the shape properties: one empties the
\* vertex vector (Vec::clear) instead of zeroing it, one zeroes the indices
\* as well.
clear_truncating(b) == [b EXCEPT !.vertices = <<>>]

\* Another one, which stops one slot short of the end: the property of
\* clear tells it from clear.
clear_all_but_last(b) ==
    [b EXCEPT !.vertices = [i \in 1..Len(b.vertices) |->
                               IF i < Len(b.vertices)
                               THEN ZeroedVertex
                               ELSE b.vertices[i]]]

clear_everything(b) ==
    [b EXCEPT !.vertices = [i \in 1..Len(b.vertices) |-> ZeroedVertex],
              !.indices = IF b.indices = None
                          THEN None
                          ELSE Some([i \in 1..Len(b.indices[1]) |-> U32(0)])]

\* MeshFromQuads::clear
clear(b) == [b EXCEPT !.vertices = [i \in 1..Len(b.vertices) |-> ZeroedVertex]]

\* MeshFromQuads::into_vertices_and_indices
into_vertices_and_indices(b) == <<b.vertices, b.indices>>

\* Variants of the range condition of set, told from it by the properties
\* of set: one is strict and so rejects the last quad, one compares the
\* offset alone and so takes the quad one past the last.
set_in_range_strict(target_offset, vpq, max_vertices) ==
    U32Lt(AddU32(target_offset, vpq), max_vertices)

set_in_range_offset_only(target_offset, vpq, max_vertices) ==
    U32Le(target_offset, max_vertices)

\* The condition of MeshFromQuads::set on the (possibly wrapped) offset.
set_in_range(target_offset, vpq, max_vertices) ==
    U32Le(AddU32(target_offset, vpq), max_vertices)

\* MeshFromQuads::set: the builder after the call and what the call did:
\* "true", "false", or "panic".  set_done is its branch that calls
\* set_vertices, set_at the part after the offset is computed.
set_done(b, w) ==
    [builder |-> [b EXCEPT !.vertices = w.vertices],
     ret |-> IF w.panic THEN "panic" ELSE "true"]

set_at(b, draw_params, target_offset, vpq, checks) ==
    IF AddPanics(target_offset, vpq, checks)
    THEN [builder |-> b, ret |-> "panic"]
    ELSE IF set_in_range(target_offset, vpq, b.max_vertices)
         THEN set_done(b, set_vertices(draw_params, b.texture_size,
                                       b.use_half_pixel_offset, b.use_indices,
                                       target_offset, b.vertices))
         ELSE [builder |-> b, ret |-> "false"]

set(b, quad_index, draw_params, checks) ==
    IF MulPanics(quad_index, AsUsize(vertices_per_quad_of(b)), checks)
    THEN [builder |-> b, ret |-> "panic"]
    ELSE set_at(b, draw_params,
                MulU32(quad_index, AsUsize(vertices_per_quad_of(b))),
                AsUsize(vertices_per_quad_of(b)), checks)

(***************************************************************************)
(* The inputs the model draws from.                                        *)
(***************************************************************************)
\* Texture sizes: valid ones, and ones with a dimension in (0, 1), zero or
\* negative.
ValidTextureSizes == {Vec2(F(256), F(128)), Vec2(F(1), F(1))}

InvalidTextureSizes ==
    {Vec2(Q(1, 2), F(4)), Vec2(F(4), Q(1, 2)), Vec2(F(0), F(0)),
     Vec2(F(-1), F(4)), Vec2(F(4), F(-1))}

TextureSizes == ValidTextureSizes \cup InvalidTextureSizes

\* The texture sizes of the builders that are then set and cleared.
BuilderTextureSizes == {Vec2(F(256), F(128)), Vec2(F(0), F(0))}

\* Quad counts whose product with 6 leaves u32: floor((2^32 - 1) / 6) + 1,
\* 2^30 and 2^32 - 1.
TooManyQuads == {U32(715827883), U32(2^30), U32_MAX}

\* Quad limits given to new and new_without_indices.
QuadLimits == {U32(n) : n \in 0..MaxQuads} \cup TooManyQuads

\* Quad indices given to set: those of the materialised builders, the first
\* ones past them, and ones whose offset computation leaves u32.
QuadIndices ==
    {U32(n) : n \in 0..(MaxQuads + 1)}
        \cup {U32(2^30 - 1), U32(2^30), U32(715827883)}

White == Vec4(F(1), F(1), F(1), F(1))

Red == Vec4(F(1), F(0), F(0), F(1))

\* Draw parameters, one of each kind.
DrawParams ==
    {PosColorSource(Vec2(F(32), F(0)), White,
                    Vec4(F(0), F(0), F(32), F(32)), "None"),
     PosColorSizeSource(Vec2(F(1), F(2)), Red, Vec2(F(3), F(4)),
                        Vec4(F(32), F(32), F(32), F(32)), "Horizontal"),
     DetailedParams(Vec2(F(10), F(20)), Red, Vec2(F(1), F(1)),
                    Vec2(F(2), F(4)), Vec2(F(2), F(1)),
                    Rotation(FALSE, Q(3, 5), Q(4, 5)),
                    Vec4(F(0), F(32), F(32), F(32)), "Both")}

\* A vertex of an existing mesh handed to from_texture_vertices_indices.
ExistingVertex == PosUvColor(Vec2(F(7), F(7)), Vec2(F(1), F(1)), White)

ExistingVertices == {[i \in 1..n |-> ExistingVertex] : n \in 0..MaxVecLen}

\* The index vectors handed to it: none, an empty one, the one of one quad.
ExistingIndices ==
    {None, Some(<<>>),
     Some(<<U32(0), U32(1), U32(2), U32(2), U32(3), U32(0)>>)}

(***************************************************************************)
(* The builder as a state machine: a builder is constructed (again, after  *)
(* a failed construction), set and cleared, and consumed at the end.  A    *)
(* panic ends the program.                                                 *)
(***************************************************************************)
NoCtor == [op |-> "none"]

GenIdle == [pc |-> "idle"]

Running == last.ret # "panic"

\* No builder has been constructed yet.
Unbuilt == Running /\ builder = None /\ last.op # "into_vertices_and_indices"

Init ==
    /\ overflow_checks \in BOOLEAN
    /\ builder = None
    /\ ctor = NoCtor
    /\ last = [op |-> "none", ret |-> "none"]
    /\ gen = GenIdle

\* What a constructor call leaves: the builder if any, and the call.
Constructed(op, texture_size, use_half_pixel_offset, arg, r) ==
    /\ builder' = IF r.ok THEN Some(r.value[1]) ELSE None
    /\ ctor' = IF r.ok
               THEN [op |-> op, texture_size |-> texture_size,
                     use_half_pixel_offset |-> use_half_pixel_offset,
                     arg |-> arg]
               ELSE NoCtor
    /\ last' = [op |-> op, texture_size |-> texture_size, arg |-> arg,
                ret |-> IF r.ok THEN "Ok" ELSE r.error]
    /\ UNCHANGED <<overflow_checks, gen>>

New(sizes) ==
    /\ Unbuilt
    /\ \E texture_size \in sizes, use_half_pixel_offset \in BOOLEAN,
          quad_limit \in QuadLimits :
            Constructed("new", texture_size, use_half_pixel_offset,
                        <<quad_limit>>,
                        new(texture_size, use_half_pixel_offset, quad_limit,
                            overflow_checks))

NewWithoutIndices(sizes) ==
    /\ Unbuilt
    /\ \E texture_size \in sizes, use_half_pixel_offset \in BOOLEAN,
          quad_limit \in QuadLimits :
            Constructed("new_without_indices", texture_size,
                        use_half_pixel_offset, <<quad_limit>>,
                        new_without_indices(texture_size, use_half_pixel_offset,
                                            quad_limit, overflow_checks))

FromTextureVerticesIndices(sizes) ==
    /\ Unbuilt
    /\ \E texture_size \in sizes, use_half_pixel_offset \in BOOLEAN,
          vertices \in ExistingVertices, indices \in ExistingIndices :
            Constructed("from_texture_vertices_indices", texture_size,
                        use_half_pixel_offset, <<vertices, indices>>,
                        from_texture_vertices_indices(
                            texture_size, use_half_pixel_offset,
                            vertices, indices))

\* What a call of set leaves.
SetReturned(quad_index, draw_params, r) ==
    /\ builder' = Some(r.builder)
    /\ last' = [op |-> "set", quad_index |-> quad_index,
                draw_params |-> draw_params, ret |-> r.ret]
    /\ UNCHANGED <<overflow_checks, ctor, gen>>

Set ==
    /\ Running /\ builder # None
    /\ \E quad_index \in QuadIndices, draw_params \in DrawParams :
          SetReturned(quad_index, draw_params,
                      set(builder[1], quad_index, draw_params, overflow_checks))

Clear ==
    /\ Running /\ builder # None
    /\ builder' = Some(clear(builder[1]))
    /\ last' = [op |-> "clear", ret |-> "()"]
    /\ UNCHANGED <<overflow_checks, ctor, gen>>

IntoVerticesAndIndices ==
    /\ Running /\ builder # None
    /\ builder' = None
    /\ ctor' = NoCtor
    /\ last' = [op |-> "into_vertices_and_indices", ret |-> "moved",
                moved |-> into_vertices_and_indices(builder[1])]
    /\ UNCHANGED <<overflow_checks, gen>>

Next ==
    \/ New(BuilderTextureSizes)
    \/ NewWithoutIndices(BuilderTextureSizes)
    \/ FromTextureVerticesIndices(BuilderTextureSizes)
    \/ Set
    \/ Clear
    \/ IntoVerticesAndIndices

Spec == Init /\ [][Next]_vars

(***************************************************************************)
(* The constructors alone, over all the texture sizes.                     *)
(***************************************************************************)
NextCtor ==
    \/ New(TextureSizes)
    \/ NewWithoutIndices(TextureSizes)
    \/ FromTextureVerticesIndices(TextureSizes)

SpecCtor == Init /\ [][NextCtor]_vars

(***************************************************************************)
(* generate_quad_indices step by step.  For a quad count too large for its *)
(* vector to be materialised the loop is followed over its first           *)
(* MaxGenQuads iterations and over its last ones: the latter start from    *)
(* the state the loop is in after k iterations, offset = 6k and            *)
(* index_value = 4k, with none of the entries before 6k materialised.      *)
(***************************************************************************)
\* The largest quad count whose indices fit u32: floor((2^32 - 1) / 6).
MostQuads == U32(715827882)

GenQuadCounts ==
    {U32(n) : n \in 0..MaxGenQuads} \cup {U32(2^29), MostQuads} \cup TooManyQuads

\* The loop after k iterations.
gen_after(k) == GenLoop(WideMul(k, 6), WideMul(k, 6), WideMul(k, 4), <<>>, FALSE)

GenCalled(quad_count) == [pc |-> "call", quad_count |-> quad_count]

GenLooping(quad_count, length, loop) ==
    [pc |-> "loop", quad_count |-> quad_count, length |-> length, loop |-> loop]

GenDone(quad_count, loop, ret) ==
    [pc |-> "done", quad_count |-> quad_count, loop |-> loop, ret |-> ret]

InitGen ==
    /\ overflow_checks \in BOOLEAN
    /\ builder = None
    /\ ctor = NoCtor
    /\ last = [op |-> "none", ret |-> "none"]
    /\ \/ \E quad_count \in GenQuadCounts : gen = GenCalled(quad_count)
       \/ \E quad_count \in {U32(2^29), MostQuads}, j \in 1..MaxGenQuads :
             gen = GenLooping(quad_count, gen_length(quad_count)[1],
                              gen_after(SubU32(quad_count, j)))

\* The call up to the loop.
GenCall ==
    /\ gen.pc = "call"
    /\ gen' = IF gen_length(gen.quad_count) = None
              THEN GenDone(gen.quad_count, gen_start, Err("QuadCountIsTooLarge"))
              ELSE GenLooping(gen.quad_count, gen_length(gen.quad_count)[1],
                              gen_start)
    /\ UNCHANGED <<overflow_checks, builder, ctor, last>>

\* What an iteration leaves.
GenIterated(s) ==
    /\ gen' = IF s.panic
              THEN GenDone(gen.quad_count, s, Panicked)
              ELSE GenLooping(gen.quad_count, gen.length, s)
    /\ UNCHANGED <<overflow_checks, builder, ctor, last>>

\* One iteration of the loop.
GenIterate ==
    /\ gen.pc = "loop"
    /\ U32Lt(gen.loop.offset, gen.length)
    /\ Len(gen.loop.indices) < 6 * MaxGenQuads
    /\ GenIterated(gen_body(gen.loop, gen.length, overflow_checks))

\* The end of the loop and the return.
GenReturn ==
    /\ gen.pc = "loop"
    /\ ~U32Lt(gen.loop.offset, gen.length)
    /\ gen' = GenDone(gen.quad_count, gen.loop, Ok(gen.loop.indices))
    /\ UNCHANGED <<overflow_checks, builder, ctor, last>>

NextGen == GenCall \/ GenIterate \/ GenReturn

SpecGen == InitGen /\ [][NextGen]_vars

(***************************************************************************)
(* The tetra variant of the builder (MeshBuilder), the one with a ceiling  *)
(* on the size of the vertex buffer.  Its buffers are far too large to be  *)
(* materialised at the quad limits the ceiling is about, so a successful   *)
(* construction is kept as the number of vertices it allocates.            *)
(***************************************************************************)
MAX_VERTEX_BUFFER_SIZE_MBYTES == 512

\* std::mem::size_of::<tetra::graphics::mesh::Vertex>(): two Vec2<f32> and
\* a Color of four f32.
SizeOfVertex == 32

RECURSIVE BitLen(_)
BitLen(n) == IF n = 0 THEN 0 ELSE 1 + BitLen(n \div 2)

\* `as f32` on a natural below 2^30: the nearest value with a 24-bit
\* significand, ties to the even one.
RoundToF32(n) ==
    IF BitLen(n) <= 24
    THEN n
    ELSE IF (n % (2 ^ (BitLen(n) - 24))) * 2 > 2 ^ (BitLen(n) - 24)
            \/ /\ (n % (2 ^ (BitLen(n) - 24))) * 2 = 2 ^ (BitLen(n) - 24)
               /\ (n \div (2 ^ (BitLen(n) - 24))) % 2 = 1
         THEN ((n \div (2 ^ (BitLen(n) - 24))) + 1) * (2 ^ (BitLen(n) - 24))
         ELSE (n \div (2 ^ (BitLen(n) - 24))) * (2 ^ (BitLen(n) - 24))

\* desired_mbytes > MAX_VERTEX_BUFFER_SIZE_MBYTES, where desired_mbytes is
\* ((quad_limit as f64 * size_of::<Vertex>() as f64) / (1024.0 * 1024.0))
\* as f32.  The f64 product and quotient are exact, and the factor
\* size_of / 2^20 is a power of two, so the rounding of the cast is the
\* rounding of quad_limit itself.  From 2^30 quads on the value is 32768 or
\* more.
mesh_too_large(quad_limit) ==
    IF quad_limit[1] >= 2^14
    THEN TRUE
    ELSE FGt(Q(RoundToF32(AsUsize(quad_limit)), (1024 * 1024) \div SizeOfVertex),
             F(MAX_VERTEX_BUFFER_SIZE_MBYTES))

\* The outcome of MeshBuilder::create: the error, or the numbers of
\* vertices and of indices allocated.
MeshBuilderErr(e) == [ok |-> FALSE, error |-> e, vertices |-> None, indices |-> None]

MeshBuilderOk(max_vertices, indices) ==
    [ok |-> TRUE, error |-> "none", vertices |-> Some(max_vertices), indices |-> indices]

\* MeshBuilder::create.  Every error is a TetraError::PlatformError, told
\* apart here by its message.
MeshBuilder_create(width, height, quad_limit, use_indices) ==
    IF width < 1 \/ height < 1
    THEN MeshBuilderErr("Texture has invalid dimensions")
    ELSE IF mesh_too_large(quad_limit)
    THEN MeshBuilderErr("Mesh will take too many megabytes")
    ELSE IF use_indices /\ gen_length(quad_limit) = None
    THEN MeshBuilderErr("Quad count is too large")
    ELSE IF total_vertices_in_quads(quad_limit, use_indices) = None
    THEN MeshBuilderErr("Quad count is too large")
    ELSE MeshBuilderOk(total_vertices_in_quads(quad_limit, use_indices)[1],
                       IF use_indices THEN gen_length(quad_limit) ELSE None)

\* Texture dimensions and quad limits: small ones, ones around the quad
\* counts whose 4 or 6 vertices each reach the ceiling, ones around the
\* quad count the check itself stops at, and ones past u32.
MeshBuilderTextures == {<<256, 128>>, <<0, 16>>, <<16, 0>>}

MeshBuilderQuadLimits ==
    {U32(n) : n \in {0, 1, 1048576, 2796202, 2796203, 4194304, 4194305,
                     5000000, 16777215, 16777216, 16777217, 16777218,
                     33554432}}
        \cup {MostQuads} \cup TooManyQuads

MeshBuilderCreate ==
    /\ last.op = "none"
    /\ \E texture \in MeshBuilderTextures, quad_limit \in MeshBuilderQuadLimits,
          use_indices \in BOOLEAN :
            last' = [op |-> "MeshBuilder::create", texture |-> texture,
                     quad_limit |-> quad_limit, use_indices |-> use_indices,
                     ret |-> MeshBuilder_create(texture[1], texture[2],
                                                quad_limit, use_indices)]
    /\ UNCHANGED <<overflow_checks, builder, ctor, gen>>

\* MeshFromQuads::create up to its allocations, for quad limits whose
\* buffers are too large to be materialised: the error, or the lengths of
\* the index vector (if any) and of the vertex vector.  For a length that
\* fits u32 the loop of generate_quad_indices runs to its end in both build
\* profiles (SpecGen), so its outcome here is the outcome of its length.
create_sizes(texture_size, quad_limit, use_indices) ==
    IF ~texture_size_ok(texture_size)
    THEN Err("InvalidTextureSize")
    ELSE IF use_indices /\ gen_length(quad_limit) = None
    THEN Err("QuadCountIsTooLarge")
    ELSE IF total_vertices_in_quads(quad_limit, use_indices) = None
    THEN Err("QuadCountIsTooLarge")
    ELSE Ok([indices |-> IF use_indices THEN gen_length(quad_limit) ELSE None,
             max_vertices |-> total_vertices_in_quads(quad_limit, use_indices)[1]])

CreateSizes ==
    /\ last.op = "none"
    /\ \E texture_size \in TextureSizes, quad_limit \in MeshBuilderQuadLimits,
          use_indices \in BOOLEAN :
            last' = [op |-> "MeshFromQuads::create", texture_size |-> texture_size,
                     quad_limit |-> quad_limit, use_indices |-> use_indices,
                     ret |-> create_sizes(texture_size, quad_limit, use_indices)]
    /\ UNCHANGED <<overflow_checks, builder, ctor, gen>>

NextSize == MeshBuilderCreate \/ CreateSizes

SpecSize == Init /\ [][NextSize]_vars

(***************************************************************************)
(* The UV functions on their own: calculate_uvs_with_source over textures, *)
(* source rectangles, flips and both half-pixel settings, and flip_uvs     *)
(* applied up to MaxFlips times in a row to a UV pair.                     *)
(***************************************************************************)
MaxFlips == 2

UvTextureSizes ==
    {Vec2(F(256), F(128)), Vec2(F(3), F(7)), Vec2(F(0), F(0)), Vec2(F(-4), F(8)),
     Vec2(F(8), F(0))}

UvSources ==
    {Vec4(x, y, w, h) : x \in {F(0), F(32), Q(5, 2)}, y \in {F(0), F(32)},
                        w \in {F(32), F(1), F(0)}, h \in {F(32), F(16)}}

UvValues == {F(0), Q(1, 4), Q(7, 8)}

CalculateUvs ==
    /\ last.op = "none"
    /\ \E texture_size \in UvTextureSizes, use_half_pixel_offset \in BOOLEAN,
          source \in UvSources, flip \in UvFlip :
            last' = [op |-> "calculate_uvs_with_source",
                     texture_size |-> texture_size,
                     use_half_pixel_offset |-> use_half_pixel_offset,
                     source |-> source, flip |-> flip,
                     ret |-> calculate_uvs_with_source(
                                 texture_size, use_half_pixel_offset, source, flip)]
    /\ UNCHANGED <<overflow_checks, builder, ctor, gen>>

\* flip_uvs on a fresh UV pair.
FlipUvs ==
    /\ last.op = "none"
    /\ \E flip \in UvFlip, u \in UvValues, v \in UvValues,
          u2 \in UvValues, v2 \in UvValues :
            last' = [op |-> "flip_uvs", flips |-> <<flip>>,
                     original |-> <<u, v, u2, v2>>,
                     ret |-> flip_uvs(flip, u, v, u2, v2)]
    /\ UNCHANGED <<overflow_checks, builder, ctor, gen>>

\* flip_uvs on the pair the last flip_uvs left.
FlipUvsAgain ==
    /\ last.op = "flip_uvs"
    /\ Len(last.flips) < MaxFlips
    /\ \E flip \in UvFlip :
          last' = [last EXCEPT !.flips = Append(last.flips, flip),
                               !.ret = flip_uvs(flip, last.ret[1], last.ret[2],
                                                last.ret[3], last.ret[4])]
    /\ UNCHANGED <<overflow_checks, builder, ctor, gen>>

NextUv == CalculateUvs \/ FlipUvs \/ FlipUvsAgain

SpecUv == Init /\ [][NextUv]_vars

(***************************************************************************)
(* corner_points with the rounding of f32.  The values are dyadic          *)
(* rationals (whole numbers, halves, ... : the rationals an f32 can hold), *)
(* and every f32 operation is the exact operation followed by the rounding *)
(* of its result to a 24-bit significand, ties to even.  Exponents stay    *)
(* far from the ends of the f32 range, so nothing overflows or underflows. *)
(***************************************************************************)
RoundInt(n) == IF n < 0 THEN -RoundToF32(-n) ELSE RoundToF32(n)

\* The f32 nearest to the dyadic rational v: scaling by a power of two
\* leaves the significand alone, so the numerator is what is rounded.
F32(v) == Q(RoundInt(v[1]), v[2])

Add32(a, b) == F32(FAdd(a, b))

Sub32(a, b) == F32(FSub(a, b))

Mul32(a, b) == F32(FMul(a, b))

\* a.mul_add(b, c): a * b + c with a single rounding.
MulAdd32(a, b, c) == F32(FAdd(FMul(a, b), c))

\* PosColorSource::corner_points
corner_points_basic_f32(p, texture_size) ==
    LET source_width == p.source.z
        source_or_texture_width ==
            IF FGt(source_width, F(0)) THEN source_width ELSE texture_size.x
        source_height == p.source.w
        source_or_texture_height ==
            IF FGt(source_height, F(0)) THEN source_height ELSE texture_size.y
        f2 == Vec2(Add32(p.position.x, source_or_texture_width),
                   Add32(p.position.y, source_or_texture_height))
    IN  <<Vec2(p.position.x, p.position.y),
          Vec2(p.position.x, f2.y),
          Vec2(f2.x, f2.y),
          Vec2(f2.x, p.position.y)>>

\* PosColorSizeSource::corner_points
corner_points_sized_f32(p, texture_size) ==
    LET f2 == Vec2(Add32(p.position.x, p.size.x), Add32(p.position.y, p.size.y))
    IN  <<Vec2(p.position.x, p.position.y),
          Vec2(p.position.x, f2.y),
          Vec2(f2.x, f2.y),
          Vec2(f2.x, p.position.y)>>

\* DetailedParams::corner_points up to its branch on the rotation: the
\* local rectangle <<p1, p2, p3, p4>>.  The f32 constant 0.001 is a little
\* more than 1/1000 (by less than 5e-11); no |scale - 1.0| of the scales
\* used here lies between the two.
detailed_local_f32(p) ==
    LET f0 == Vec2(FNeg(p.origin.x), FNeg(p.origin.y))
        f20 == Vec2(Sub32(p.size.x, p.origin.x), Sub32(p.size.y, p.origin.y))
        scaled == \/ FGt(FAbs(Sub32(p.scale.x, F(1))), Q(1, 1000))
                  \/ FGt(FAbs(Sub32(p.scale.y, F(1))), Q(1, 1000))
        f == IF scaled
             THEN Vec2(Mul32(f0.x, p.scale.x), Mul32(f0.y, p.scale.y))
             ELSE f0
        f2 == IF scaled
              THEN Vec2(Mul32(f20.x, p.scale.x), Mul32(f20.y, p.scale.y))
              ELSE f20
    IN  <<f, Vec2(f.x, f2.y), Vec2(f2.x, f2.y), Vec2(f2.x, f.y)>>

\* Its branch for rotation != 0.0.
rotated_corners_f32(cos, sin, p1, p2, p3, p4) ==
    LET c1 == Vec2(Sub32(Mul32(cos, p1.x), Mul32(sin, p1.y)),
                   MulAdd32(sin, p1.x, Mul32(cos, p1.y)))
        c2 == Vec2(Sub32(Mul32(cos, p2.x), Mul32(sin, p2.y)),
                   MulAdd32(sin, p2.x, Mul32(cos, p2.y)))
        c3 == Vec2(Sub32(Mul32(cos, p3.x), Mul32(sin, p3.y)),
                   MulAdd32(sin, p3.x, Mul32(cos, p3.y)))
        c4 == Vec2(Add32(c1.x, Sub32(c3.x, c2.x)),
                   Sub32(c3.y, Sub32(c2.y, c1.y)))
    IN  <<c1, c2, c3, c4>>

\* Its end: the corners c moved by world_origin.
detailed_world_f32(c, p) ==
    [i \in 1..4 |-> Vec2(Add32(c[i].x, Add32(p.position.x, p.origin.x)),
                         Add32(c[i].y, Add32(p.position.y, p.origin.y)))]

\* DetailedParams::corner_points
corner_points_detailed_f32(p, texture_size) ==
    detailed_world_f32(
        IF p.rotation.eq_zero
        THEN detailed_local_f32(p)
        ELSE rotated_corners_f32(p.rotation.cos, p.rotation.sin,
                                 detailed_local_f32(p)[1], detailed_local_f32(p)[2],
                                 detailed_local_f32(p)[3], detailed_local_f32(p)[4]),
        p)

corner_points_f32(p, texture_size) ==
    CASE p.kind = "PosColorSource" -> corner_points_basic_f32(p, texture_size)
      [] p.kind = "PosColorSizeSource" -> corner_points_sized_f32(p, texture_size)
      [] p.kind = "DetailedParams" -> corner_points_detailed_f32(p, texture_size)

\* Parameters for it: positions and sizes that are small, and ones from
\* 2^24 on, where an f32 no longer holds every whole number.  The only
\* rotation is none: the cosine and sine of any other angle are not both
\* dyadic rationals small enough to be written here.
F32Positions ==
    {Vec2(F(0), F(0)), Vec2(F(-1), F(2)), Vec2(F(16777216), F(0)),
     Vec2(F(3), F(33554432))}

F32Sizes ==
    {Vec2(F(1), F(1)), Vec2(F(32), F(16)), Vec2(Q(1, 2), Q(3, 2)),
     Vec2(F(16777218), F(1))}

F32Params ==
    {PosColorSource(position, White, Vec4(F(0), F(0), size.x, size.y), "None") :
         position \in F32Positions, size \in F32Sizes}
    \cup
    {PosColorSizeSource(position, Red, size, Vec4(F(0), F(0), F(32), F(32)), "None") :
         position \in F32Positions, size \in F32Sizes}
    \cup
    {DetailedParams(position, Red, origin, size, scale, Rotation(TRUE, F(1), F(0)),
                    Vec4(F(0), F(0), F(32), F(32)), "None") :
         position \in F32Positions, size \in F32Sizes,
         origin \in {Vec2(F(0), F(0)), Vec2(F(1), F(1)), Vec2(F(-3), Q(1, 2))},
         scale \in {Vec2(F(1), F(1)), Vec2(F(2), Q(1, 2))}}

(***************************************************************************)
(* The QuadDrawParams methods on their own: corner_points, set_vertices on *)
(* a buffer of existing vertices, and to_vertices.                         *)
(***************************************************************************)
\* Largest offset set_vertices is called with here.
MaxOffset == 2

QuadTextureSizes == {Vec2(F(256), F(128)), Vec2(F(0), F(0))}

\* Parameters of each implementation: for PosColorSource sources with a
\* positive, zero and negative width and a positive and zero height; for
\* PosColorSizeSource sizes that are positive, zero and partly negative,
\* each with two sources; for DetailedParams an unrotated and a rotated one.
QuadParams ==
    {PosColorSource(position, White, Vec4(F(0), F(32), w, h), "None") :
         position \in {Vec2(F(32), F(0)), Vec2(Q(-3, 2), F(5))},
         w \in {F(32), F(0), F(-8)}, h \in {F(16), F(0)}}
    \cup
    {PosColorSizeSource(position, Red, size, source, "Horizontal") :
         position \in {Vec2(F(1), F(2)), Vec2(Q(-3, 2), F(5))},
         size \in {Vec2(F(3), F(4)), Vec2(F(0), F(0)), Vec2(F(-2), Q(5, 2))},
         source \in {Vec4(F(32), F(32), F(32), F(32)), Vec4(F(0), F(0), F(0), F(0))}}
    \cup
    {DetailedParams(Vec2(F(10), F(20)), Red, Vec2(F(1), F(1)), Vec2(F(2), F(4)),
                    Vec2(F(2), F(1)), rotation,
                    Vec4(F(0), F(32), F(32), F(32)), "Both") :
         rotation \in {Rotation(TRUE, F(1), F(0)), Rotation(FALSE, Q(3, 5), Q(4, 5))}}

\* Rotations: none, and angles whose cosine and sine are rational.
DetailedRotations ==
    {Rotation(TRUE, F(1), F(0)), Rotation(FALSE, Q(3, 5), Q(4, 5)),
     Rotation(FALSE, F(0), F(1)), Rotation(FALSE, F(-1), F(0)),
     Rotation(FALSE, Q(-12, 13), Q(5, 13)), Rotation(FALSE, Q(4, 5), Q(-3, 5))}

\* Scales: within the tolerance of 0.001 on both axes (1.001 and 0.999 are
\* the last values within it), out of it on one axis and on both, and
\* negative or zero.
DetailedScales ==
    {Vec2(F(1), F(1)), Vec2(Q(1001, 1000), Q(999, 1000)),
     Vec2(Q(2001, 2000), F(1)), Vec2(Q(501, 500), F(1)), Vec2(F(1), Q(499, 500)),
     Vec2(Q(2001, 2000), F(2)), Vec2(F(3), Q(1999, 2000)),
     Vec2(F(2), F(1)), Vec2(Q(1, 2), F(3)), Vec2(F(-1), F(2)), Vec2(F(0), F(1))}

\* DetailedParams for corner_points alone (the source rectangle and the
\* flip play no part in it): every scale with the quarter turns, whose
\* cosine and sine are whole numbers, and every rotation with the scales
\* that are whole numbers or halves.
DetailedVariants ==
    {<<scale, rotation>> :
         scale \in DetailedScales,
         rotation \in {r \in DetailedRotations : r.cos[2] = 1 /\ r.sin[2] = 1}}
    \cup
    {<<scale, rotation>> :
         scale \in {sc \in DetailedScales : sc.x[2] <= 2 /\ sc.y[2] <= 2},
         rotation \in DetailedRotations}

DetailedCornerParams ==
    {DetailedParams(position, Red, origin, size, v[1], v[2],
                    Vec4(F(0), F(32), F(32), F(32)), "None") :
         position \in {Vec2(F(10), F(20)), Vec2(F(-3), F(5))},
         origin \in {Vec2(F(0), F(0)), Vec2(F(1), F(1)), Vec2(F(-2), F(3))},
         size \in {Vec2(F(2), F(4)), Vec2(F(32), F(16)), Vec2(F(0), F(4)),
                   Vec2(F(-2), F(4))},
         v \in DetailedVariants}

\* Buffers of existing vertices: empty, of one quad of either layout, and
\* longer ones.
QuadBuffers == {[i \in 1..n |-> ExistingVertex] : n \in {0, 4, 6, 6 + MaxOffset}}

CornerPoints ==
    /\ last.op = "none"
    /\ \E draw_params \in QuadParams \cup DetailedCornerParams,
          texture_size \in QuadTextureSizes :
          last' = [op |-> "corner_points", draw_params |-> draw_params,
                   texture_size |-> texture_size,
                   ret |-> corner_points(draw_params, texture_size)]
    /\ UNCHANGED <<overflow_checks, builder, ctor, gen>>

SetVertices ==
    /\ last.op = "none"
    /\ \E draw_params \in QuadParams, texture_size \in QuadTextureSizes,
          use_half_pixel_offset \in BOOLEAN, use_indices \in BOOLEAN,
          vertex_offset \in 0..MaxOffset, vertices \in QuadBuffers :
            last' = [op |-> "set_vertices", draw_params |-> draw_params,
                     texture_size |-> texture_size,
                     use_half_pixel_offset |-> use_half_pixel_offset,
                     use_indices |-> use_indices,
                     vertex_offset |-> vertex_offset,
                     vertices |-> vertices,
                     ret |-> set_vertices(draw_params, texture_size,
                                          use_half_pixel_offset, use_indices,
                                          U32(vertex_offset), vertices)]
    /\ UNCHANGED <<overflow_checks, builder, ctor, gen>>

ToVertices ==
    /\ last.op = "none"
    /\ \E draw_params \in QuadParams, texture_size \in QuadTextureSizes,
          use_half_pixel_offset \in BOOLEAN, use_indices \in BOOLEAN :
            last' = [op |-> "to_vertices", draw_params |-> draw_params,
                     texture_size |-> texture_size,
                     use_half_pixel_offset |-> use_half_pixel_offset,
                     use_indices |-> use_indices,
                     ret |-> to_vertices(draw_params, texture_size,
                                         use_half_pixel_offset, use_indices)]
    /\ UNCHANGED <<overflow_checks, builder, ctor, gen>>

\* corner_points as the f32 operations compute it.
CornerPointsF32 ==
    /\ last.op = "none"
    /\ \E draw_params \in F32Params, texture_size \in QuadTextureSizes :
          last' = [op |-> "corner_points in f32", draw_params |-> draw_params,
                   texture_size |-> texture_size,
                   ret |-> corner_points_f32(draw_params, texture_size)]
    /\ UNCHANGED <<overflow_checks, builder, ctor, gen>>

NextQuad == CornerPoints \/ CornerPointsF32 \/ SetVertices \/ ToVertices

SpecQuad == Init /\ [][NextQuad]_vars

(***************************************************************************)
(* Two builders side by side: one made by new and one by                   *)
(* new_without_indices from the same texture size, half-pixel flag and     *)
(* quad limit, then given the same set and clear calls.  Here builder      *)
(* holds the two of them, and a panic of either ends the run.              *)
(***************************************************************************)
BothBuilders(indexed, plain) == [indexed |-> indexed, plain |-> plain]

BothRunning ==
    builder # None /\ last.ret.indexed # "panic" /\ last.ret.plain # "panic"

BothNew ==
    /\ builder = None
    /\ \E texture_size \in {Vec2(F(256), F(128))}, use_half_pixel_offset \in BOOLEAN,
          n \in 0..MaxQuads :
            /\ builder' = Some(BothBuilders(
                               new(texture_size, use_half_pixel_offset, U32(n),
                                   overflow_checks).value[1],
                               new_without_indices(texture_size, use_half_pixel_offset,
                                                   U32(n), overflow_checks).value[1]))
            /\ ctor' = [op |-> "new, new_without_indices",
                        texture_size |-> texture_size,
                        use_half_pixel_offset |-> use_half_pixel_offset,
                        arg |-> <<U32(n)>>]
            /\ last' = [op |-> "new, new_without_indices",
                        ret |-> BothBuilders("Ok", "Ok")]
    /\ UNCHANGED <<overflow_checks, gen>>

\* What the same call of set on both builders leaves.
BothSetReturned(quad_index, draw_params, indexed, plain) ==
    /\ builder' = Some(BothBuilders(indexed.builder, plain.builder))
    /\ last' = [op |-> "set", quad_index |-> quad_index,
                draw_params |-> draw_params,
                ret |-> BothBuilders(indexed.ret, plain.ret)]
    /\ UNCHANGED <<overflow_checks, ctor, gen>>

BothSet ==
    /\ BothRunning
    /\ \E quad_index \in QuadIndices, draw_params \in DrawParams :
          BothSetReturned(quad_index, draw_params,
                          set(builder[1].indexed, quad_index, draw_params,
                              overflow_checks),
                          set(builder[1].plain, quad_index, draw_params,
                              overflow_checks))

BothClear ==
    /\ BothRunning
    /\ builder' = Some(BothBuilders(clear(builder[1].indexed),
                                    clear(builder[1].plain)))
    /\ last' = [op |-> "clear", ret |-> BothBuilders("()", "()")]
    /\ UNCHANGED <<overflow_checks, ctor, gen>>

NextBoth == BothNew \/ BothSet \/ BothClear

SpecBoth == Init /\ [][NextBoth]_vars

(***************************************************************************)
(* Properties of set.                                                      *)
(***************************************************************************)
\* The builder in hand came from new or new_without_indices.
BuiltByNew == ctor.op \in {"new", "new_without_indices"}

\* The quad limit N that constructor was given, and the vertices per quad of
\* the layout it stands for.
CtorQuadLimit == ctor.arg[1]

CtorVerticesPerQuad == IF ctor.op = "new" THEN 4 ELSE 6

\* The vertices that the parameters of the last set call compute for the
\* builder's texture size, half-pixel flag and layout.
LastQuad ==
    quad_layout(quad_corners(last.draw_params, ctor.texture_size,
                             ctor.use_half_pixel_offset),
                ctor.op = "new")

\* C1: on a builder made by new or new_without_indices with quad limit N,
\* set(i, params) with i in 0..N-1 returns true, and the vertex slots
\* i*vpq .. i*vpq + vpq - 1 then hold the vertices computed from params, in
\* order (vpq is 4 for the indexed layout and 6 for the other).
C1_SetInRangeWrites ==
    (BuiltByNew /\ last.op = "set" /\ U32Lt(last.quad_index, CtorQuadLimit))
        => /\ last.ret = "true"
           /\ \A j \in 1..CtorVerticesPerQuad :
                 builder[1].vertices[AsUsize(last.quad_index) * CtorVerticesPerQuad + j]
                     = LastQuad[j]

\* A set call on the last quad of a two-quad builder without indices
\* returned true.
C1_Witness ==
    /\ ctor.op = "new_without_indices" /\ CtorQuadLimit = U32(2)
    /\ last.op = "set" /\ last.quad_index = U32(1) /\ last.ret = "true"

\* The step is a call of set with quad index i on builder b.
SetCalled(i) == last'.op = "set" /\ last'.quad_index = i /\ builder # None

\* i * vpq + vpq, computed exactly, is still a u32.
OffsetFitsU32(i, vpq) == ~Overflows(WideAdd(WideMul(i, vpq), vpq))

\* C2: set(i, params) with i >= quad_limit, where i*vpq + vpq is still
\* within u32, returns false and leaves the builder (vertices, indices and
\* all the metadata) as it was.
C2_SetPastLimitRejected ==
    [][\A i \in QuadIndices :
          (/\ SetCalled(i)
           /\ ~U32Lt(i, builder[1].quad_limit)
           /\ OffsetFitsU32(i, AsUsize(builder[1].vertices_per_quad)))
              => (last'.ret = "false" /\ builder' = builder)]_vars

\* A set call one past the last quad of a builder that has quads set
\* returned false.
C2_Witness ==
    /\ last.op = "set" /\ last.ret = "false"
    /\ builder # None
    /\ last.quad_index = builder[1].quad_limit
    /\ builder[1].quad_limit = U32(2)
    /\ \E k \in 1..Len(builder[1].vertices) :
          builder[1].vertices[k] # ZeroedVertex

\* C3: set(i, params) with any u32 i >= quad_limit returns false and leaves
\* the builder as it was, also when i*vpq or i*vpq + vpq leaves u32: it
\* neither panics nor writes.
C3_SetNeverFaultsNorWrites ==
    [][\A i \in QuadIndices :
          (SetCalled(i) /\ ~U32Lt(i, builder[1].quad_limit))
              => (last'.ret = "false" /\ builder' = builder)]_vars

\* The slots of quad i in the layout with vpq vertices per quad.
QuadSlots(i, vpq) ==
    IF Overflows(WideMul(i, vpq)) \/ ~U32Lt(WideMul(i, vpq), U32(2^30))
    THEN {}
    ELSE {AsUsize(WideMul(i, vpq)) + j : j \in 1..vpq}

\* C4: a set(i, params) that returns true changes only the vertex slots
\* i*vpq .. (i+1)*vpq - 1: every other slot, the indices and all the
\* metadata stay as they were.
C4_SetChangesOnlyItsSlots ==
    [][\A i \in QuadIndices :
          (SetCalled(i) /\ last'.ret = "true")
              => /\ [builder'[1] EXCEPT !.vertices = <<>>]
                        = [builder[1] EXCEPT !.vertices = <<>>]
                 /\ Len(builder'[1].vertices) = Len(builder[1].vertices)
                 /\ \A k \in 1..Len(builder[1].vertices) :
                       k \notin QuadSlots(i, AsUsize(builder[1].vertices_per_quad))
                           => builder'[1].vertices[k] = builder[1].vertices[k]]_vars

(***************************************************************************)
(* Properties of the builder's shape.                                      *)
(***************************************************************************)
\* C5: in every state of a builder made by new or new_without_indices with
\* quad limit N, the vertex vector has vertices_limit() = N * vpq entries,
\* quad_limit() is N, and vertices_per_quad() is 4 (indexed) or 6.
C5_BuilderShape ==
    BuiltByNew
        => /\ Len(vertices_(builder[1])) = AsUsize(vertices_limit(builder[1]))
           /\ AsUsize(vertices_limit(builder[1]))
                  = AsUsize(CtorQuadLimit) * CtorVerticesPerQuad
           /\ quad_limit_(builder[1]) = CtorQuadLimit
           /\ vertices_per_quad_of(builder[1]) = U32(CtorVerticesPerQuad)

\* A two-quad indexed builder has just been cleared.
C5_Witness ==
    /\ ctor.op = "new" /\ CtorQuadLimit = U32(2)
    /\ last.op = "clear"

\* The corner each of the six indices of a quad points at.
QuadCorner == <<0, 1, 2, 2, 3, 0>>

\* The index buffer of n quads, written out entry by entry.
QuadIndexPattern(n) ==
    [k \in 1..(6 * n) |-> U32(4 * ((k - 1) \div 6) + QuadCorner[((k - 1) % 6) + 1])]

\* C6: a builder made by new with quad limit N has, in every state, an index
\* buffer of N * 6 entries in the pattern 4i, 4i+1, 4i+2, 4i+2, 4i+3, 4i:
\* construction fills it and set and clear leave it alone.  A builder made
\* by new_without_indices has no index buffer in any state.
C6_IndicesFixed ==
    /\ ctor.op = "new"
           => indices_(builder[1]) = Some(QuadIndexPattern(AsUsize(CtorQuadLimit)))
    /\ ctor.op = "new_without_indices" => indices_(builder[1]) = None

\* The second quad of a two-quad indexed builder has been set.
C6_Witness ==
    /\ ctor.op = "new" /\ CtorQuadLimit = U32(2)
    /\ last.op = "set" /\ last.quad_index = U32(1) /\ last.ret = "true"

\* C7: a builder made by from_texture_vertices_indices from any vertex
\* vector and optional index vector has quad_limit * vpq vertices and, when
\* it has indices, quad_limit * 6 of them.
C7_ExistingBuffersKeepShape ==
    ctor.op = "from_texture_vertices_indices"
        => /\ Len(vertices_(builder[1]))
                  = AsUsize(quad_limit_(builder[1]))
                        * AsUsize(vertices_per_quad_of(builder[1]))
           /\ indices_(builder[1]) # None
                  => Len(indices_(builder[1])[1])
                         = AsUsize(quad_limit_(builder[1])) * 6

(***************************************************************************)
(* Properties of generate_quad_indices.                                    *)
(***************************************************************************)
\* The quad the m-th materialised entry of the loop belongs to, and the
\* exact value 4 * quad + corner that entry is to hold.
GenQuadOf(m) == AddU32(DivU32(gen.loop.base, 6), (m - 1) \div 6)

GenExactIndex(m) ==
    WideAdd(WideMul(GenQuadOf(m), 4), QuadCorner[((m - 1) % 6) + 1])

\* C8: generate_quad_indices(q), when it succeeds, returns q * 6 entries,
\* those of quad i being 4i, 4i+1, 4i+2, 4i+2, 4i+3, 4i; for q = 0 it returns
\* the empty vector.
C8_GeneratedPattern ==
    (gen.pc = "done" /\ gen.ret.ok)
        => /\ WideAdd(gen.loop.base, Len(gen.ret.value[1]))
                  = WideMul(gen.quad_count, 6)
           /\ \A m \in 1..Len(gen.ret.value[1]) :
                 gen.ret.value[1][m] = GenExactIndex(m)
           /\ gen.quad_count = U32(0) => gen.ret.value[1] = <<>>

\* The call for three quads returned its eighteen indices.
C8_Witness ==
    /\ gen.pc = "done" /\ gen.ret.ok
    /\ gen.quad_count = U32(3) /\ Len(gen.ret.value[1]) = 18

\* C9: generate_quad_indices(q) returns QuadCountIsTooLarge exactly when
\* q * 6 is more than 2^32 - 1, and never panics; the length it loops to is
\* the exact q * 6, never a wrapped one; and the running index value (4 for
\* every 6 of the offset) and every stored index are the exact values,
\* within u32.
C9_TooLargeExactly ==
    /\ gen.pc = "done"
           => /\ gen.ret.error # "panic"
              /\ gen.ret.error = "QuadCountIsTooLarge"
                     <=> U32Lt(DivU32(U32_MAX, 6), gen.quad_count)
    /\ gen.pc = "loop"
           => gen.length = WideMul(gen.quad_count, 6) /\ ~Overflows(gen.length)
    /\ (gen.pc \in {"loop", "done"} /\ ~gen.loop.panic)
           => /\ WideMul(gen.loop.index_value, 3) = WideMul(gen.loop.offset, 2)
              /\ \A m \in 1..Len(gen.loop.indices) :
                    /\ gen.loop.indices[m] = GenExactIndex(m)
                    /\ ~Overflows(GenExactIndex(m))

\* The call for the first quad count whose indices leave u32 returned the
\* error.
C9_Witness ==
    /\ gen.pc = "done"
    /\ gen.quad_count = U32(715827883)
    /\ gen.ret.error = "QuadCountIsTooLarge"

(***************************************************************************)
(* Properties of the constructors.                                         *)
(***************************************************************************)
CtorCalled ==
    last.op \in {"new", "new_without_indices", "from_texture_vertices_indices"}

\* C10: new, new_without_indices and from_texture_vertices_indices return
\* InvalidTextureSize exactly when the texture's width or height is less
\* than 1, whatever the quad count or the buffers: the texture is checked
\* first.
C10_InvalidTextureSizeExactly ==
    CtorCalled
        => (last.ret = "InvalidTextureSize"
               <=> (FLt(last.texture_size.x, F(1)) \/ FLt(last.texture_size.y, F(1))))

\* new was called with a texture of height 1/2 and a quad count too large
\* for u32, and returned InvalidTextureSize.
C10_Witness ==
    /\ last.op = "new" /\ last.ret = "InvalidTextureSize"
    /\ last.texture_size = Vec2(F(4), Q(1, 2))
    /\ last.arg = <<U32_MAX>>

(***************************************************************************)
(* Properties of the size limits at construction.                          *)
(***************************************************************************)
\* quad_limit * vpq * size_of(Vertex) is more than the ceiling in bytes.
VertexBytesOverCeiling(quad_limit, vpq) ==
    U32Lt(U32((MAX_VERTEX_BUFFER_SIZE_MBYTES * 1024 * 1024) \div SizeOfVertex),
          WideMul(quad_limit, vpq))

\* C11: with a valid texture, construction fails with the size-limit error,
\* allocating nothing, whenever quad_limit * vertices_per_quad *
\* size_of(Vertex) is more than the ceiling of 512 MB, and does not fail with
\* that error when the product is at or below the ceiling.
C11_ByteCeiling ==
    (last.op = "MeshBuilder::create" /\ last.texture[1] >= 1 /\ last.texture[2] >= 1)
        => /\ VertexBytesOverCeiling(last.quad_limit,
                                     vertices_per_quad(last.use_indices))
                  <=> last.ret.error = "Mesh will take too many megabytes"
           /\ last.ret.error = "Mesh will take too many megabytes"
                  => (last.ret.vertices = None /\ last.ret.indices = None)

\* C12: with a valid texture size, construction succeeds exactly when
\* quad_limit * vertices_per_quad fits u32 and, for the indexed layout,
\* quad_limit * 6 does, which for both layouts is when quad_limit is at most
\* floor((2^32 - 1) / 6); otherwise it fails with QuadCountIsTooLarge.  On
\* success max_vertices is the exact product, never a wrapped one.
C12_ConstructionOverflowChecked ==
    (last.op = "MeshFromQuads::create" /\ texture_size_ok(last.texture_size))
        => /\ last.ret.ok
                  <=> /\ ~Overflows(WideMul(last.quad_limit,
                                            vertices_per_quad(last.use_indices)))
                      /\ last.use_indices => ~Overflows(WideMul(last.quad_limit, 6))
           /\ last.ret.ok <=> U32Le(last.quad_limit, DivU32(U32_MAX, 6))
           /\ ~last.ret.ok => last.ret.error = "QuadCountIsTooLarge"
           /\ last.ret.ok
                  => last.ret.value[1].max_vertices
                         = WideMul(last.quad_limit,
                                   vertices_per_quad(last.use_indices))

\* Construction without indices succeeded at the largest accepted quad
\* limit, 715827882.
C12_Witness ==
    /\ last.op = "MeshFromQuads::create"
    /\ last.quad_limit = U32(715827882) /\ ~last.use_indices
    /\ last.ret.ok

(***************************************************************************)
(* Properties of clear.                                                    *)
(***************************************************************************)
\* The vertex with position, uv and color all zero, written out.
AllZeroVertex ==
    [position |-> [x |-> <<0, 1>>, y |-> <<0, 1>>],
     uv |-> [x |-> <<0, 1>>, y |-> <<0, 1>>],
     color |-> [x |-> <<0, 1>>, y |-> <<0, 1>>, z |-> <<0, 1>>, w |-> <<0, 1>>]]

\* The builder that the constructor call recorded in ctor returned.
FreshBuilder ==
    create(ctor.texture_size, ctor.use_half_pixel_offset, CtorQuadLimit,
           ctor.op = "new", overflow_checks).value[1]

\* C13: right after new or new_without_indices, and right after any clear
\* (whatever set calls came before), every vertex slot is the all-zero
\* vertex; after clear the indices, quad_limit, vertices_limit and texture
\* size are what construction made them, the builder being equal to a
\* freshly constructed one with the same arguments.
C13_ClearZeroes ==
    /\ (builder # None /\ last.op \in {"new", "new_without_indices", "clear"})
           => \A k \in 1..Len(vertices_(builder[1])) :
                 vertices_(builder[1])[k] = AllZeroVertex
    /\ (BuiltByNew /\ last.op \in {"new", "new_without_indices", "clear"})
           => /\ builder[1] = FreshBuilder
              /\ Len(vertices_(builder[1]))
                     = AsUsize(CtorQuadLimit) * CtorVerticesPerQuad
    /\ (ctor.op = "from_texture_vertices_indices" /\ last.op = "clear")
           => /\ indices_(builder[1]) = ctor.arg[2]
              /\ Len(vertices_(builder[1])) = Len(ctor.arg[1])
              /\ builder[1].texture_size = ctor.texture_size

\* A two-quad builder without indices has just been cleared: its twelve
\* slots are zero.
C13_Witness ==
    /\ ctor.op = "new_without_indices" /\ CtorQuadLimit = U32(2)
    /\ last.op = "clear"
    /\ Len(vertices_(builder[1])) = 12
    /\ \A k \in 1..12 : vertices_(builder[1])[k] = AllZeroVertex

(***************************************************************************)
(* Properties of the UVs.                                                  *)
(***************************************************************************)
\* calculate_uvs_with_source returned, for a texture positive in both
\* dimensions.
UvsCalculated ==
    /\ last.op = "calculate_uvs_with_source"
    /\ FGt(last.texture_size.x, F(0)) /\ FGt(last.texture_size.y, F(0))

\* C14: without half-pixel offset, with flip None and a texture positive in
\* both dimensions, the UVs of source (x, y, w, h) are
\* top-left = (x / tex_w, (y + h) / tex_h) and
\* bottom-right = ((x + w) / tex_w, y / tex_h); texture (256, 128) and source
\* (0, 0, 32, 32) give (0, 1/4) and (1/8, 0).
C14_PlainUvs ==
    (UvsCalculated /\ ~last.use_half_pixel_offset /\ last.flip = "None")
        => /\ last.ret[1].x = FDiv(last.source.x, last.texture_size.x)
           /\ last.ret[1].y = FDiv(FAdd(last.source.y, last.source.w),
                                   last.texture_size.y)
           /\ last.ret[2].x = FDiv(FAdd(last.source.x, last.source.z),
                                   last.texture_size.x)
           /\ last.ret[2].y = FDiv(last.source.y, last.texture_size.y)
           /\ (/\ last.texture_size = Vec2(F(256), F(128))
               /\ last.source = Vec4(F(0), F(0), F(32), F(32)))
                  => last.ret = <<Vec2(<<0, 1>>, <<1, 4>>), Vec2(<<1, 8>>, <<0, 1>>)>>

\* The UVs of source (0, 0, 32, 32) in the 256 x 128 texture were computed
\* without half-pixel offset and without flip.
C14_Witness ==
    /\ last.op = "calculate_uvs_with_source"
    /\ last.texture_size = Vec2(F(256), F(128))
    /\ last.source = Vec4(F(0), F(0), F(32), F(32))
    /\ ~last.use_half_pixel_offset /\ last.flip = "None"
    /\ last.ret[1] = Vec2(<<0, 1>>, <<1, 4>>)

\* C15: with half-pixel offset, flip None (and a texture positive in both
\* dimensions, where the UVs are computed at all), the UVs of source
\* (x, y, w, h) are u = (x + 1/2) / tex_w, u2 = (x + w - 1 + 1/2) / tex_w,
\* v = (y + h - 1 + 1/2) / tex_h and v2 = (y + 1/2) / tex_h.
C15_HalfPixelUvs ==
    (UvsCalculated /\ last.use_half_pixel_offset /\ last.flip = "None")
        => /\ last.ret[1].x
                  = FDiv(FAdd(last.source.x, Q(1, 2)), last.texture_size.x)
           /\ last.ret[2].x
                  = FDiv(FAdd(FSub(FAdd(last.source.x, last.source.z), F(1)), Q(1, 2)),
                         last.texture_size.x)
           /\ last.ret[1].y
                  = FDiv(FAdd(FSub(FAdd(last.source.y, last.source.w), F(1)), Q(1, 2)),
                         last.texture_size.y)
           /\ last.ret[2].y
                  = FDiv(FAdd(last.source.y, Q(1, 2)), last.texture_size.y)

\* The UVs of source (32, 32, 32, 16) in the 256 x 128 texture were computed
\* with half-pixel offset: u = 65/512 and u2 = 127/512.
C15_Witness ==
    /\ last.op = "calculate_uvs_with_source"
    /\ last.texture_size = Vec2(F(256), F(128))
    /\ last.source = Vec4(F(32), F(32), F(32), F(16))
    /\ last.use_half_pixel_offset /\ last.flip = "None"
    /\ last.ret[1].x = <<65, 512>> /\ last.ret[2].x = <<127, 512>>

\* C16: flip_uvs applied twice with the same flip, whichever of the four,
\* gives back the UV pair it started from.
C16_FlipTwiceIsIdentity ==
    (/\ last.op = "flip_uvs"
     /\ Len(last.flips) = 2
     /\ last.flips[1] = last.flips[2])
        => last.ret = last.original

\* Both was applied twice to a pair with u # u2 and v # v2.
C16_Witness ==
    /\ last.op = "flip_uvs"
    /\ last.flips = <<"Both", "Both">>
    /\ last.original = <<F(0), Q(1, 4), Q(7, 8), F(0)>>
    /\ last.ret = last.original

\* The pair o = <<u, v, u2, v2>> with u and u2 swapped if h, v and v2
\* swapped if w.
Swapped(o, h, w) ==
    <<IF h THEN o[3] ELSE o[1], IF w THEN o[4] ELSE o[2],
      IF h THEN o[1] ELSE o[3], IF w THEN o[2] ELSE o[4]>>

\* The two UV corners as one pair <<u, v, u2, v2>>.
UvPair(uvs_) == <<uvs_[1].x, uvs_[1].y, uvs_[2].x, uvs_[2].y>>

\* C17: the UVs computed with flip F (for a texture positive in both
\* dimensions, with or without half-pixel offset) are those computed with
\* flip None with u, u2 swapped if F is Horizontal or Both and v, v2 swapped
\* if F is Vertical or Both; flip_uvs itself swaps only u with u2 for
\* Horizontal, only v with v2 for Vertical, nothing for None and both for
\* Both, and Horizontal then Vertical, or Vertical then Horizontal, gives
\* what Both gives.
C17_FlipIsSwap ==
    /\ UvsCalculated
           => UvPair(last.ret)
                  = Swapped(UvPair(calculate_uvs_with_source(
                                       last.texture_size,
                                       last.use_half_pixel_offset,
                                       last.source, "None")),
                            last.flip \in {"Horizontal", "Both"},
                            last.flip \in {"Vertical", "Both"})
    /\ (last.op = "flip_uvs" /\ Len(last.flips) = 1)
           => last.ret = Swapped(last.original,
                                 last.flips[1] \in {"Horizontal", "Both"},
                                 last.flips[1] \in {"Vertical", "Both"})
    /\ (/\ last.op = "flip_uvs"
        /\ last.flips \in {<<"Horizontal", "Vertical">>, <<"Vertical", "Horizontal">>})
           => last.ret = Swapped(last.original, TRUE, TRUE)

\* Vertical then Horizontal was applied to a pair with u # u2 and v # v2.
C17_Witness ==
    /\ last.op = "flip_uvs"
    /\ last.flips = <<"Vertical", "Horizontal">>
    /\ last.original = <<F(0), Q(1, 4), Q(7, 8), F(0)>>
    /\ last.ret = <<Q(7, 8), F(0), F(0), Q(1, 4)>>

(***************************************************************************)
(* Properties of the QuadDrawParams methods.                               *)
(***************************************************************************)
\* The corner vertices c1..c4 of the quad of the last call.
LastCorners ==
    quad_corners(last.draw_params, last.texture_size, last.use_half_pixel_offset)

\* C18: set_vertices, called where the buffer has the slots, writes the
\* corner vertices c1, c2, c3, c4 to the 4 slots from the offset on in the
\* indexed layout and c1, c2, c3, c3, c4, c1 to the 6 slots from the offset
\* on in the other, whichever the implementation of the parameters, and
\* leaves the other slots alone.
C18_SetVerticesLayout ==
    (/\ last.op = "set_vertices"
     /\ last.vertex_offset + vertices_per_quad(last.use_indices) <= Len(last.vertices))
        => /\ ~last.ret.panic
           /\ Len(last.ret.vertices) = Len(last.vertices)
           /\ \A k \in 1..Len(last.vertices) :
                 last.ret.vertices[k]
                     = IF k <= last.vertex_offset
                          \/ k > last.vertex_offset + vertices_per_quad(last.use_indices)
                       THEN last.vertices[k]
                       ELSE IF last.use_indices
                       THEN LastCorners[k - last.vertex_offset]
                       ELSE LastCorners[<<1, 2, 3, 3, 4, 1>>[k - last.vertex_offset]]

\* set_vertices wrote the six vertices of a rotated DetailedParams quad
\* from offset 2 of a buffer of eight.
C18_Witness ==
    /\ last.op = "set_vertices"
    /\ last.draw_params.kind = "DetailedParams"
    /\ ~last.draw_params.rotation.eq_zero
    /\ ~last.use_indices /\ last.vertex_offset = 2 /\ Len(last.vertices) = 8
    /\ ~last.ret.panic
    /\ last.ret.vertices[3] = last.ret.vertices[8]
    /\ last.ret.vertices[3] # ExistingVertex

\* The axis-aligned corners of the rectangle at (x, y) of size (w, h).
AxisAligned(x, y, w, h) ==
    <<[x |-> x, y |-> y], [x |-> x, y |-> FAdd(y, h)],
      [x |-> FAdd(x, w), y |-> FAdd(y, h)], [x |-> FAdd(x, w), y |-> y]>>

\* C19: corner_points of PosColorSource gives c1 = (x, y), c2 = (x, y + h),
\* c3 = (x + w, y + h), c4 = (x + w, y) with (x, y) the position, w the
\* source width if that is positive and else the texture width, and h the
\* same of the heights; corner_points of PosColorSizeSource gives the same
\* with (w, h) its size, whatever the source rectangle and the texture size.
C19_AxisAlignedCorners ==
    /\ (last.op = "corner_points" /\ last.draw_params.kind = "PosColorSource")
           => last.ret
                  = AxisAligned(last.draw_params.position.x,
                                last.draw_params.position.y,
                                IF FGt(last.draw_params.source.z, F(0))
                                THEN last.draw_params.source.z
                                ELSE last.texture_size.x,
                                IF FGt(last.draw_params.source.w, F(0))
                                THEN last.draw_params.source.w
                                ELSE last.texture_size.y)
    /\ (last.op = "corner_points" /\ last.draw_params.kind = "PosColorSizeSource")
           => last.ret
                  = AxisAligned(last.draw_params.position.x,
                                last.draw_params.position.y,
                                last.draw_params.size.x,
                                last.draw_params.size.y)

\* corner_points of a PosColorSource with source width -8 and height 16 in
\* the 256 x 128 texture: the width of the quad is the texture's.
C19_Witness ==
    /\ last.op = "corner_points"
    /\ last.draw_params.kind = "PosColorSource"
    /\ last.draw_params.position = Vec2(F(32), F(0))
    /\ last.draw_params.source.z = F(-8) /\ last.draw_params.source.w = F(16)
    /\ last.texture_size = Vec2(F(256), F(128))
    /\ last.ret[3] = Vec2(F(288), F(16))

\* C20: to_vertices returns a vector of vertices_per_quad(use_indices)
\* vertices, the ones set_vertices writes at offset 0 of a buffer allocated
\* beforehand, in the same order, whichever the implementation.
C20_ToVerticesReturnsQuad ==
    last.op = "to_vertices"
        => /\ ~last.ret.panic
           /\ Len(last.ret.vertices) = vertices_per_quad(last.use_indices)
           /\ last.ret.vertices
                  = set_vertices(last.draw_params, last.texture_size,
                                 last.use_half_pixel_offset, last.use_indices,
                                 <<0, 0>>,
                                 [i \in 1..vertices_per_quad(last.use_indices)
                                     |-> ZeroedVertex]).vertices

(***************************************************************************)
(* Properties of the vertices of a written quad.                           *)
(***************************************************************************)
\* The corner (1..4) stored in the j-th slot of a quad of either layout.
CornerOfSlot(use_indices) ==
    IF use_indices THEN <<1, 2, 3, 4>> ELSE <<1, 2, 3, 3, 4, 1>>

\* set_vertices returned after writing its quad.
QuadWritten == last.op = "set_vertices" /\ ~last.ret.panic

\* The j-th vertex of the quad the last set_vertices wrote.
WrittenVertex(j) == last.ret.vertices[last.vertex_offset + j]

\* The UV of corner n, from the top-left result uv1 and the bottom-right
\* result uv3 of uvs.
CornerUv(n, uv1, uv3) ==
    CASE n = 1 -> uv1
      [] n = 2 -> [x |-> uv1.x, y |-> uv3.y]
      [] n = 3 -> uv3
      [] n = 4 -> [x |-> uv3.x, y |-> uv1.y]

\* C21: in every quad set_vertices writes, the vertex of corner n has the
\* n-th corner position of corner_points and the UV uv1 (n = 1), (uv1.x,
\* uv3.y) (n = 2), uv3 (n = 3), (uv3.x, uv1.y) (n = 4), where uv1 and uv3 are
\* the top-left and bottom-right results of uvs; and all its 4 or 6 vertices
\* carry the color of the params.
C21_QuadUvsAndColor ==
    QuadWritten
        => \A j \in 1..vertices_per_quad(last.use_indices) :
              /\ WrittenVertex(j).position
                     = corner_points(last.draw_params, last.texture_size)[
                           CornerOfSlot(last.use_indices)[j]]
              /\ WrittenVertex(j).uv
                     = CornerUv(CornerOfSlot(last.use_indices)[j],
                                uvs(last.draw_params, last.texture_size,
                                    last.use_half_pixel_offset)[1],
                                uvs(last.draw_params, last.texture_size,
                                    last.use_half_pixel_offset)[2])
              /\ WrittenVertex(j).color = last.draw_params.color

\* A six-vertex quad of a PosColorSizeSource with a flipped source in the
\* 256 x 128 texture was written: its four UVs differ from one another and
\* its color is the red of the params.
C21_Witness ==
    /\ QuadWritten /\ ~last.use_indices
    /\ last.draw_params.kind = "PosColorSizeSource"
    /\ last.texture_size = Vec2(F(256), F(128))
    /\ last.draw_params.source = Vec4(F(32), F(32), F(32), F(32))
    /\ WrittenVertex(1).uv # WrittenVertex(3).uv
    /\ WrittenVertex(2).uv = Vec2(WrittenVertex(1).uv.x, WrittenVertex(3).uv.y)
    /\ WrittenVertex(5).uv = Vec2(WrittenVertex(3).uv.x, WrittenVertex(1).uv.y)
    /\ WrittenVertex(2).uv # WrittenVertex(5).uv
    /\ WrittenVertex(6).color = Red

(***************************************************************************)
(* Properties of the degenerate inputs.                                    *)
(***************************************************************************)
\* C22: for a texture size whose width or height is zero or negative, the
\* UVs are the fixed pair top-left = (0, 1), bottom-right = (1, 0), whatever
\* the source rectangle, the flip and the half-pixel setting: nothing is
\* divided by the texture size and the call returns.
C22_FixedUvsWithoutTexture ==
    (/\ last.op = "calculate_uvs_with_source"
     /\ ~FGt(last.texture_size.x, F(0)) \/ ~FGt(last.texture_size.y, F(0)))
        => last.ret = <<[x |-> <<0, 1>>, y |-> <<1, 1>>],
                        [x |-> <<1, 1>>, y |-> <<0, 1>>]>>

\* The UVs were computed for the texture (8, 0), with half-pixel offset and
\* flip Both, and are the fixed pair.
C22_Witness ==
    /\ last.op = "calculate_uvs_with_source"
    /\ last.texture_size = Vec2(F(8), F(0))
    /\ last.use_half_pixel_offset /\ last.flip = "Both"
    /\ last.source = Vec4(F(32), F(32), F(32), F(16))
    /\ last.ret = <<Vec2(F(0), F(1)), Vec2(F(1), F(0))>>

\* The params with a source width (height) that is zero or negative replaced
\* by the texture's width (height).
WithFullSource(p, texture_size) ==
    [p EXCEPT !.source =
        Vec4(p.source.x, p.source.y,
             IF FGt(p.source.z, F(0)) THEN p.source.z ELSE texture_size.x,
             IF FGt(p.source.w, F(0)) THEN p.source.w ELSE texture_size.y)]

\* C23: the quad written for a PosColorSource whose source width (height) is
\* zero or negative is, in positions and in UVs, the quad written for the
\* same params with the source width (height) set to the texture's: the
\* corners span the texture size on that axis, and so do the UVs.
C23_SourceFallsBackForQuad ==
    (QuadWritten /\ last.draw_params.kind = "PosColorSource")
        => /\ corner_points(last.draw_params, last.texture_size)[3]
                  = Vec2(FAdd(last.draw_params.position.x,
                              WithFullSource(last.draw_params, last.texture_size).source.z),
                         FAdd(last.draw_params.position.y,
                              WithFullSource(last.draw_params, last.texture_size).source.w))
           /\ last.ret.vertices
                  = set_vertices(WithFullSource(last.draw_params, last.texture_size),
                                 last.texture_size, last.use_half_pixel_offset,
                                 last.use_indices, U32(last.vertex_offset),
                                 last.vertices).vertices

(***************************************************************************)
(* Properties of DetailedParams::corner_points.                            *)
(***************************************************************************)
\* corner_points returned for a DetailedParams, in exact arithmetic and in
\* f32; Unrotated: its rotation is 0.
DetailedCorners == last.op = "corner_points" /\ last.draw_params.kind = "DetailedParams"

DetailedCornersF32 ==
    last.op = "corner_points in f32" /\ last.draw_params.kind = "DetailedParams"

Unrotated == last.draw_params.rotation.eq_zero

\* Whether the scale of p is applied: a component is more than 0.001 away
\* from 1.
ScaleApplied(p) ==
    \/ FLt(p.scale.x, Q(999, 1000)) \/ FGt(p.scale.x, Q(1001, 1000))
    \/ FLt(p.scale.y, Q(999, 1000)) \/ FGt(p.scale.y, Q(1001, 1000))

\* f = -origin and f2 = size - origin of p, each multiplied by sc.
LocalF(p, sc) == [x |-> FMul(FNeg(p.origin.x), sc.x), y |-> FMul(FNeg(p.origin.y), sc.y)]

LocalF2(p, sc) ==
    [x |-> FMul(FSub(p.size.x, p.origin.x), sc.x),
     y |-> FMul(FSub(p.size.y, p.origin.y), sc.y)]

\* world_origin + (f.x, f.y), (f.x, f2.y), (f2.x, f2.y), (f2.x, f.y).
RectangleAt(p, f, f2) ==
    <<[x |-> FAdd(FAdd(p.position.x, p.origin.x), f.x),
       y |-> FAdd(FAdd(p.position.y, p.origin.y), f.y)],
      [x |-> FAdd(FAdd(p.position.x, p.origin.x), f.x),
       y |-> FAdd(FAdd(p.position.y, p.origin.y), f2.y)],
      [x |-> FAdd(FAdd(p.position.x, p.origin.x), f2.x),
       y |-> FAdd(FAdd(p.position.y, p.origin.y), f2.y)],
      [x |-> FAdd(FAdd(p.position.x, p.origin.x), f2.x),
       y |-> FAdd(FAdd(p.position.y, p.origin.y), f.y)]>>

\* The scale of p if it is applied, and else (1, 1).
EffectiveScale(p) == IF ScaleApplied(p) THEN p.scale ELSE [x |-> <<1, 1>>, y |-> <<1, 1>>]

\* The corners the branch for rotation != 0.0 gives for p when it is
\* evaluated with the cosine 1 and the sine 0 of the angle 0, in exact
\* arithmetic and in f32.
AtAngleZero(p, texture_size) ==
    corner_points_detailed([p EXCEPT !.rotation = Rotation(FALSE, F(1), F(0))],
                           texture_size)

AtAngleZeroF32(p, texture_size) ==
    corner_points_detailed_f32([p EXCEPT !.rotation = Rotation(FALSE, F(1), F(0))],
                               texture_size)

Turned(r, v) ==
    IF r.eq_zero
    THEN v
    ELSE [x |-> FSub(FMul(r.cos, v.x), FMul(r.sin, v.y)),
          y |-> FAdd(FMul(r.sin, v.x), FMul(r.cos, v.y))]

\* The corners of p when its local rectangle, from -origin to size - origin,
\* is multiplied by sc on both axes, turned and moved to world_origin.
CornersScaledBy(p, sc) ==
    [i \in 1..4 |->
        [x |-> FAdd(Turned(p.rotation,
                           <<LocalF(p, sc), [x |-> LocalF(p, sc).x, y |-> LocalF2(p, sc).y],
                             LocalF2(p, sc), [x |-> LocalF2(p, sc).x, y |-> LocalF(p, sc).y]>>[i]).x,
                    FAdd(p.position.x, p.origin.x)),
         y |-> FAdd(Turned(p.rotation,
                           <<LocalF(p, sc), [x |-> LocalF(p, sc).x, y |-> LocalF2(p, sc).y],
                             LocalF2(p, sc), [x |-> LocalF2(p, sc).x, y |-> LocalF(p, sc).y]>>[i]).y,
                    FAdd(p.position.y, p.origin.y))]]

\* C25: DetailedParams::corner_points multiplies both axes of the local
\* rectangle by scale exactly when |scale.x - 1| > 0.001 or
\* |scale.y - 1| > 0.001: then the corners are those of the rectangle
\* multiplied by (scale.x, scale.y), a component within the tolerance
\* included as given; when both components are within 0.001 of 1 the corners
\* are those computed for scale (1, 1).
C25_ScaleTolerance ==
    DetailedCorners
        => /\ ScaleApplied(last.draw_params)
                  => last.ret = CornersScaledBy(last.draw_params, last.draw_params.scale)
           /\ ~ScaleApplied(last.draw_params)
                  => /\ last.ret = CornersScaledBy(last.draw_params,
                                                   [x |-> <<1, 1>>, y |-> <<1, 1>>])
                     /\ last.ret
                            = corner_points(
                                  [last.draw_params EXCEPT !.scale = Vec2(F(1), F(1))],
                                  last.texture_size)

\* The corners of an unrotated quad of size (2, 4) at (10, 20) with origin
\* (1, 1) and scale (1.0005, 2): the x of the third corner is 11 + 1.0005.
C25_Witness ==
    /\ DetailedCorners /\ Unrotated
    /\ last.draw_params.scale = Vec2(Q(2001, 2000), F(2))
    /\ last.draw_params.position = Vec2(F(10), F(20))
    /\ last.draw_params.origin = Vec2(F(1), F(1))
    /\ last.draw_params.size = Vec2(F(2), F(4))
    /\ last.ret[3] = Vec2(Q(24001, 2000), F(27))

\* C26: in the rotated branch of DetailedParams::corner_points the fourth
\* corner, built as c4 = c1 + (c3 - c2) (x as c1.x + (c3.x - c2.x), y as
\* c3.y - (c2.y - c1.y)), is in exact arithmetic the rotation by the same
\* (cos, sin) of the fourth local corner p4 = (f2.x, f.y), moved to
\* world_origin like the others: for every rotation, origin, size and scale.
C26_FourthCornerClosesParallelogram ==
    (DetailedCorners /\ ~Unrotated)
        => /\ last.ret[4].x
                  = FAdd(last.ret[1].x, FSub(last.ret[3].x, last.ret[2].x))
           /\ last.ret[4].y
                  = FSub(last.ret[3].y, FSub(last.ret[2].y, last.ret[1].y))
           /\ last.ret[4]
                  = [x |-> FAdd(FSub(FMul(last.draw_params.rotation.cos,
                                          LocalF2(last.draw_params,
                                                  EffectiveScale(last.draw_params)).x),
                                     FMul(last.draw_params.rotation.sin,
                                          LocalF(last.draw_params,
                                                 EffectiveScale(last.draw_params)).y)),
                                FAdd(last.draw_params.position.x,
                                     last.draw_params.origin.x)),
                     y |-> FAdd(FAdd(FMul(last.draw_params.rotation.sin,
                                          LocalF2(last.draw_params,
                                                  EffectiveScale(last.draw_params)).x),
                                     FMul(last.draw_params.rotation.cos,
                                          LocalF(last.draw_params,
                                                 EffectiveScale(last.draw_params)).y)),
                                FAdd(last.draw_params.position.y,
                                     last.draw_params.origin.y))]

\* The corners of the quad of size (2, 4) at (10, 20) with origin (1, 1) and
\* scale (2, 1), turned by the angle of cosine 3/5 and sine 4/5: local p4 is
\* (2, -1), and the fourth corner is (11 + 2, 21 + 1).
C26_Witness ==
    /\ DetailedCorners /\ ~Unrotated
    /\ last.draw_params.rotation = Rotation(FALSE, Q(3, 5), Q(4, 5))
    /\ last.draw_params.scale = Vec2(F(2), F(1))
    /\ last.draw_params.position = Vec2(F(10), F(20))
    /\ last.draw_params.origin = Vec2(F(1), F(1))
    /\ last.draw_params.size = Vec2(F(2), F(4))
    /\ last.ret[4] = Vec2(F(13), F(22))

(***************************************************************************)
(* Properties of the winding.                                              *)
(***************************************************************************)
Sgn(v) == IF v[1] > 0 THEN 1 ELSE IF v[1] < 0 THEN -1 ELSE 0

\* The sign of a * b - c * d, multiplying only where the signs of the two
\* products do not settle it.
SgnOfDifference(a, b, c, d) ==
    IF Sgn(a) * Sgn(b) # Sgn(c) * Sgn(d)
    THEN IF Sgn(a) * Sgn(b) > Sgn(c) * Sgn(d) THEN 1 ELSE -1
    ELSE IF Sgn(a) * Sgn(b) = 0
         THEN 0
         ELSE Sgn(FSub(FMul(a, b), FMul(c, d)))

\* The sign of the cross product (b - a) x (c - a) of the triangle
\* <<a, b, c>>.
Winding(t) ==
    SgnOfDifference(FSub(t[2].x, t[1].x), FSub(t[3].y, t[1].y),
                    FSub(t[2].y, t[1].y), FSub(t[3].x, t[1].x))

\* corner_points returned, in exact arithmetic or in f32.
CornersReturned == last.op \in {"corner_points", "corner_points in f32"}

\* The two triangles of the quad of the last call: (c1, c2, c3) and
\* (c3, c4, c1) of the corners returned, or, of a quad written, the
\* positions its two triangles are drawn from: vertices 0, 1, 2 and 3, 4, 5,
\* or with indices the vertices 0, 1, 2 and 2, 3, 0.
Triangles ==
    IF CornersReturned
    THEN <<<<last.ret[1], last.ret[2], last.ret[3]>>,
           <<last.ret[3], last.ret[4], last.ret[1]>>>>
    ELSE [k \in 1..2 |->
             [j \in 1..3 |->
                 WrittenVertex(IF last.use_indices
                               THEN QuadCorner[3 * (k - 1) + j] + 1
                               ELSE 3 * (k - 1) + j).position]]

\* The width and height of the quad are positive: for PosColorSource those
\* of the source, or of the texture where the source has none; for
\* PosColorSizeSource the size; for DetailedParams the size and the scale.
PositiveExtent(p, texture_size) ==
    CASE p.kind = "PosColorSource" ->
             /\ FGt(IF FGt(p.source.z, F(0)) THEN p.source.z ELSE texture_size.x, F(0))
             /\ FGt(IF FGt(p.source.w, F(0)) THEN p.source.w ELSE texture_size.y, F(0))
      [] p.kind = "PosColorSizeSource" ->
             FGt(p.size.x, F(0)) /\ FGt(p.size.y, F(0))
      [] p.kind = "DetailedParams" ->
             /\ FGt(p.size.x, F(0)) /\ FGt(p.size.y, F(0))
             /\ FGt(p.scale.x, F(0)) /\ FGt(p.scale.y, F(0))

ReadThroughIndices(b) ==
    [k \in 1..Len(indices_(b)[1]) |-> vertices_(b)[AsUsize(indices_(b)[1][k]) + 1]]

\* C27: the two layouts describe the same triangles.  For the same texture
\* size, half-pixel flag and quad limit N and the same set and clear calls,
\* the indexed builder's vertices read through its indices are the
\* non-indexed builder's vertices, and every set call returns the same
\* boolean from both builders.
C27_LayoutsAgree ==
    builder # None
        => /\ last.ret.indexed = last.ret.plain
           /\ last.op = "set" => last.ret.indexed \in {"true", "false"}
           /\ ReadThroughIndices(builder[1].indexed) = vertices_(builder[1].plain)

\* The two layouts agree step by step: a set call whose quad index times
\* vertices_per_quad, plus vertices_per_quad, stays within u32 in both
\* layouts, or a clear, on builders that agree returns the same from both
\* and leaves builders that agree.
LayoutsAgreeWithinU32 ==
    [][(/\ builder # None /\ builder' # None
        /\ ReadThroughIndices(builder[1].indexed) = vertices_(builder[1].plain)
        /\ last'.op = "set" => OffsetFitsU32(last'.quad_index, 6))
           => /\ last'.ret.indexed = last'.ret.plain
              /\ last'.ret.indexed # "panic"
              /\ ReadThroughIndices(builder'[1].indexed)
                     = vertices_(builder'[1].plain)]_vars

(***************************************************************************)
(* Properties of the slots over a sequence of calls.                       *)
(***************************************************************************)
\* The vertices in the slots of quad q of builder b.
SlotOf(b, q) ==
    [j \in 1..AsUsize(vertices_per_quad_of(b)) |->
        vertices_(b)[q * AsUsize(vertices_per_quad_of(b)) + j]]

\* What the slot of quad q holds after a step, given what it held before
\* (nothing, at construction): the vertices of the params if the step is a
\* set(q, params) that returned true, zero vertices after construction and
\* after clear, and else what it held.
SlotAfterStep(q) ==
    IF last'.op = "set" /\ last'.ret = "true" /\ last'.quad_index = U32(q)
    THEN quad_layout(quad_corners(last'.draw_params, ctor'.texture_size,
                                  ctor'.use_half_pixel_offset),
                     ctor'.op = "new")
    ELSE IF builder = None \/ last'.op = "clear"
         THEN [j \in 1..AsUsize(vertices_per_quad_of(builder'[1])) |-> ZeroedVertex]
         ELSE SlotOf(builder[1], q)

\* C28: since the last clear (or construction), quad slot i holds the
\* vertices of the params of the last set(i, .) that returned true, and zero
\* vertices if there was none.  Step by step: a set(i, params) that returns
\* true makes slot i the vertices of params, whatever it held (so a repeated
\* set changes nothing and a later one overwrites), and leaves every other
\* slot alone (so sets on distinct indices commute); a set that does not
\* return true leaves every slot alone; clear and construction make every
\* slot zero.
C28_SlotsFollowLastSet ==
    [][(builder' # None /\ ctor'.op \in {"new", "new_without_indices"})
          => \A q \in 0..(MaxQuads - 1) :
                U32Lt(U32(q), quad_limit_(builder'[1]))
                    => SlotOf(builder'[1], q) = SlotAfterStep(q)]_vars

\* The same, for the set calls whose quad index times vertices_per_quad,
\* plus vertices_per_quad, stays within u32.
SlotsFollowLastSetWithinU32 ==
    [][(/\ builder' # None /\ ctor'.op \in {"new", "new_without_indices"}
        /\ last'.op = "set"
               => OffsetFitsU32(last'.quad_index,
                                AsUsize(vertices_per_quad_of(builder'[1]))))
          => \A q \in 0..(MaxQuads - 1) :
                U32Lt(U32(q), quad_limit_(builder'[1]))
                    => SlotOf(builder'[1], q) = SlotAfterStep(q)]_vars

(***************************************************************************)
(* Properties of set on a builder made from existing buffers.              *)
(***************************************************************************)
\* The length L of the vertex vector given to from_texture_vertices_indices
\* and the vertices per quad that go with its indices argument.
GivenLength == Len(ctor.arg[1])

GivenVerticesPerQuad == IF ctor.arg[2] = None THEN 6 ELSE 4

\* The step is a call of set on a builder made by
\* from_texture_vertices_indices.
SetOnGiven ==
    /\ ctor.op = "from_texture_vertices_indices" /\ builder # None
    /\ last'.op = "set"

\* What C30 says of such a step: it returns true exactly for a quad index
\* below floor(L / vertices_per_quad) and otherwise false, without indexing
\* outside the vector; the vector keeps its length, and it changes only
\* within the slots of the quad index, which lie within 0 .. L - 1, so that
\* the trailing vertices stay as they are.
SetOnGivenStaysInside ==
    /\ last'.ret = (IF U32Lt(last'.quad_index,
                             U32(GivenLength \div GivenVerticesPerQuad))
                    THEN "true" ELSE "false")
    /\ Len(vertices_(builder'[1])) = GivenLength
    /\ \A k \in 1..GivenLength :
          vertices_(builder'[1])[k] # vertices_(builder[1])[k]
              => /\ k \in QuadSlots(last'.quad_index, GivenVerticesPerQuad)
                 /\ k <= (GivenLength \div GivenVerticesPerQuad) * GivenVerticesPerQuad

\* C30: on a builder made by from_texture_vertices_indices over a vertex
\* vector of any length L, set(i, .) returns true exactly for
\* i < floor(L / vertices_per_quad), every write lands inside 0 .. L - 1, the
\* trailing vertices past quad_limit * vertices_per_quad are never modified,
\* and set never indexes outside the vector.
C30_SetOnGivenBuffers ==
    [][SetOnGiven => SetOnGivenStaysInside]_vars

\* The same, for the set calls whose quad index times vertices_per_quad,
\* plus vertices_per_quad, stays within u32.
SetOnGivenBuffersWithinU32 ==
    [][(SetOnGiven /\ OffsetFitsU32(last'.quad_index, GivenVerticesPerQuad))
          => SetOnGivenStaysInside]_vars

====
